---- MODULE Spec2Model ----
(***************************************************************************)
(* Muenzbox backend: the access session manager (routes/sessions.py,       *)
(* routes/admin.py), the scheduler jobs (scheduler.py) and the adapter     *)
(* dispatcher (adapters/__init__.py) over one SQLite store.                *)
(*                                                                         *)
(* Every request handler and every scheduler job is a coroutine with its   *)
(* own aiosqlite connection.  Each `await` is a suspension point, so the   *)
(* handlers interleave statement by statement.  The store follows SQLite   *)
(* with the sqlite3 module's default (deferred, implicit) transactions:    *)
(* a SELECT outside a transaction reads the committed store, the first     *)
(* INSERT/UPDATE/DELETE of a connection takes the single write lock, the   *)
(* writes of the transaction are visible to that connection only, and      *)
(* commit() installs them all and releases the lock.  Closing a connection *)
(* without commit() rolls the transaction back.                            *)
(*                                                                         *)
(* Columns no handler modelled here reads or compares (name, pin_hash,     *)
(* avatar, pocket money, created_at) are left out of the rows.             *)
(***************************************************************************)
EXTENDS Integers, Sequences, FiniteSets, TLC

\* ---------------------------------------------------------------- bounds
MaxOps == 2          \* requests and refill runs started in one behaviour
MaxTicks == 1        \* clock steps of COIN_MINUTES minutes each
MaxCalls == 2        \* adapter calls counted per session and direction
MaxAdapterCalls == 2 \* adapter calls started in one behaviour of the adapters
MaxMono == 2         \* steps of the monotonic clock, ten minutes each

\* ------------------------------------------------------ program constants
COIN_MINUTES == 30
\* A faulty variant: the console cap is as wide as the largest request.
SWITCH_MAX_COINS_wide == 2 + 1
SWITCH_MAX_COINS == 2
DEFAULT_WEEKLY == 2

Children == 1..2
Types == {"switch", "tv"}
ControlTypes == {"fritzbox", "mikrotik", "schedule_only"}
StartNow == 10 * 60
DayMinutes == 24 * 60
SessionIds == 1..MaxOps

NoRow == [none |-> TRUE]
NoResp == [code |-> 0]
Idle == [op |-> "idle"]

Min(a, b) == IF a <= b THEN a ELSE b
Max(a, b) == IF a >= b THEN a ELSE b

\* ----------------------------------------------------------- time_utils
\* A time of day is the text "HH:MM", kept as the sequence of its characters.
Digits == <<"0", "1", "2", "3", "4", "5", "6", "7", "8", "9">>

\* The text of h hours and m minutes, two digits each.
HM(h, m) ==
    <<Digits[(h \div 10) + 1], Digits[(h % 10) + 1], ":",
      Digits[(m \div 10) + 1], Digits[(m % 10) + 1]>>

_FALLBACK == << [von |-> HM(8, 0), bis |-> HM(20, 0)] >>

\* int(text) of a text of decimal digits
RECURSIVE int(_)
int(text) ==
    IF text = << >> THEN 0
    ELSE int(SubSeq(text, 1, Len(text) - 1)) * 10
         + (CHOOSE d \in 0..9 : Digits[d + 1] = text[Len(text)])

\* h, m = t.split(":"); return int(h), int(m)
_parse_time(t) ==
    LET colon == CHOOSE i \in 1..Len(t) : t[i] = ":"
    IN  <<int(SubSeq(t, 1, colon - 1)), int(SubSeq(t, colon + 1, Len(t)))>>

\* A faulty variant: the end of a period is not part of it.
is_in_periods_open(periods, current_minutes) ==
    \E i \in 1..Len(periods) :
        LET f == _parse_time(periods[i].von)
            u == _parse_time(periods[i].bis)
        IN  /\ f[1] * 60 + f[2] <= current_minutes
            /\ current_minutes < u[1] * 60 + u[2]

is_in_periods(periods, current_minutes) ==
    \E i \in 1..Len(periods) :
        LET f == _parse_time(periods[i].von)
            u == _parse_time(periods[i].bis)
        IN  /\ f[1] * 60 + f[2] <= current_minutes
            /\ current_minutes <= u[1] * 60 + u[2]

\* A faulty variant: Saturday is taken for a working day.
is_weekend_or_holiday_sunday(day) == day.weekday > 5 \/ day.holiday

\* today.weekday() >= 5 (5 is Saturday, 6 is Sunday) or today in
\* holidays.Germany()
is_weekend_or_holiday(day) == day.weekday >= 5 \/ day.holiday

get_active_periods(allowed_periods, weekend_periods, weekend_or_holiday) ==
    IF weekend_or_holiday
    THEN (IF weekend_periods # << >> THEN weekend_periods ELSE _FALLBACK)
    ELSE (IF allowed_periods # << >> THEN allowed_periods ELSE _FALLBACK)

\* ---------------------------------------------------------------- state
VARIABLES
    db,        \* the committed store: children, sessions, coin_log, devices
    tx,        \* the working copy of the connection holding the write lock
    lock,      \* that connection's process, or "none"
    pc,        \* each coroutine's position
    loc,       \* each coroutine's local variables
    resp,      \* the HTTP response of a finished handler
    now,       \* the clock, in minutes
    weekend,   \* is_weekend_or_holiday() for today
    hw,        \* the devices: hw[t] is TRUE while type t is unlocked
    calls,     \* per session id: the enable and disable calls made for it,
               \* and which operations made a disable call
    ops,       \* requests and refill runs started so far
    today,     \* date.today(): its weekday (0 is Monday), and whether the
               \* German holiday calendar holds it
    env,       \* the process environment the adapter modules read
    _sid_cache,        \* fritzbox._sid_cache
    monotonic,         \* time.monotonic(), in seconds
    _entry_id_cache,   \* mikrotik_direct._entry_id_cache, by identifier: the
                       \* key is f"{host}:{identifier}", the host is the
                       \* environment's
    box,       \* the devices' own state: the router's access profile of the
               \* tv, the access-list entry's disabled flag, the mock's _state
    call,      \* per caller: the adapter call it is in
    ncalls     \* adapter calls started so far

\* What the request handlers and the scheduler jobs never touch.
avars == <<today, env, _sid_cache, monotonic, _entry_id_cache, box, call, ncalls>>

vars == <<db, tx, lock, pc, loc, resp, now, weekend, hw, calls, ops, avars>>

ChildProcs == {"r1", "r2"}
AdminProcs == {"adm"}
Procs == ChildProcs \cup AdminProcs \cup {"exp", "ref"}

\* What connection p reads: its own transaction if it holds the lock, else
\* the committed store.
View(p) == IF lock = p THEN tx ELSE db

\* A write statement waits while another connection holds the write lock.
CanWrite(p) == lock \in {"none", p}

\* ------------------------------------------------------------- adapters
\* str.lower() on the texts the environments here hold
lower(text) == IF text = "True" THEN "true" ELSE text

\* os.getenv("USE_MOCK_ADAPTERS", "false").lower() == "true"
USE_MOCK == lower(env.USE_MOCK_ADAPTERS) = "true"

\* Outcome of one adapter call: "true", "false", or "raise" (an exception that
\* leaves the adapter).

\* fritzbox.tv_freigeben / tv_sperren take one positional parameter; the
\* dispatcher calls them with two, which raises TypeError at the call.
fritzbox_call(nargs) == IF nargs = 1 THEN {"true", "false"} ELSE {"raise"}

\* mikrotik_direct and nintendo catch every exception and return a bool; which
\* bool depends on the device and the network.  With USE_MOCK they answer from
\* mock.py, whose enable and disable functions return True.
mikrotik_call == IF USE_MOCK THEN {"true"} ELSE {"true", "false"}
nintendo_call == IF USE_MOCK THEN {"true"} ELSE {"true", "false"}

\* A faulty variant: a control type the dispatcher does not know is taken to
\* the REST adapter.
tv_freigeben_fallback(control_type) ==
    IF control_type = "fritzbox" THEN fritzbox_call(2) ELSE mikrotik_call

tv_freigeben(control_type) ==
    IF control_type = "fritzbox" THEN fritzbox_call(2)
    ELSE IF control_type = "mikrotik" THEN mikrotik_call
    ELSE {"false"}

tv_sperren(control_type) ==
    IF control_type = "fritzbox" THEN fritzbox_call(2)
    ELSE IF control_type = "mikrotik" THEN mikrotik_call
    ELSE {"false"}

\* ------------------------------------------------- the adapters' own state
\* The SID the router answers while no session is open.
SENTINEL == "0000000000000000"
_SID_TTL == 18 * 60

\* _sid_cache = {}: .get("sid") is None, .get("expires_at", 0) is 0.  The
\* empty text stands for "no SID": bool() is false for both.
EmptyCache == [sid |-> "", expires_at |-> 0]

\* The coroutine that calls an adapter; the calls are taken one at a time.
Callers == {"web"}

\* The identifiers the tv device row is given: both match the comment of the
\* one access-list entry (_normalized strips and casefolds), as texts they
\* differ.
Identifiers == {"Fernseher", "fernseher "}

NoCall ==
    [adapter |-> "none", fn |-> "idle", pc |-> "idle", attempt |-> 0,
     sid |-> "", urls |-> << >>, logins |-> 0, requests |-> 0,
     last |-> "none", result |-> "none", identifier |-> ""]

\* An environment with every adapter configured, and one with nothing set
\* (os.getenv's defaults).
Configured ==
    [USE_MOCK_ADAPTERS |-> "false",
     FRITZBOX_HOST |-> "fritz.box", FRITZBOX_PASS |-> "secret",
     MIKROTIK_HOST |-> "router", MIKROTIK_USER |-> "admin",
     MIKROTIK_USERNAME |-> "", MIKROTIK_PASS |-> "secret",
     NINTENDO_TOKEN |-> "token", pynintendoparental |-> TRUE]

Unset ==
    [USE_MOCK_ADAPTERS |-> "false",
     FRITZBOX_HOST |-> "fritz.box", FRITZBOX_PASS |-> "",
     MIKROTIK_HOST |-> "", MIKROTIK_USER |-> "",
     MIKROTIK_USERNAME |-> "", MIKROTIK_PASS |-> "",
     NINTENDO_TOKEN |-> "", pynintendoparental |-> TRUE]

\* The adapter modules as imported, before any call.
InitAdapters(e) ==
    /\ env = e
    /\ _sid_cache = EmptyCache
    /\ monotonic = 0
    /\ _entry_id_cache = [i \in Identifiers |-> ""]
    /\ box = [profile |-> "Gesperrt", disabled |-> "false",
              tv_unlocked |-> FALSE, switch_minutes |-> 0]
    /\ call = [c \in Callers |-> NoCall]
    /\ ncalls = 0

InitChild(c) ==
    [ coins  |-> [t \in Types |-> IF t = "tv" THEN 2 ELSE 1],
      max    |-> [t \in Types |-> 3],
      weekly |-> [t \in Types |-> DEFAULT_WEEKLY],
      allowed_periods |->
          IF c = 1 THEN << [von |-> HM(8, 0), bis |-> HM(20, 0)] >>
                   ELSE << [von |-> HM(12, 0), bis |-> HM(20, 0)] >>,
      weekend_periods |->
          IF c = 1 THEN << >>
                   ELSE << [von |-> HM(8, 0), bis |-> HM(10, 0)] >> ]

InitStore(ct) ==
    [ children |-> [c \in Children |-> InitChild(c)],
      sessions |-> << >>,
      coin_log |-> << >>,
      tv_device |-> [control_type |-> ct] ]

\* The server after start, nothing requested yet, on the day `day`.
InitServer(store, day) ==
    /\ db = store
    /\ tx = NoRow
    /\ lock = "none"
    /\ pc = [p \in Procs |-> "idle"]
    /\ loc = [p \in Procs |-> Idle]
    /\ resp = [p \in Procs |-> NoResp]
    /\ now = StartNow
    /\ today = day
    /\ weekend = is_weekend_or_holiday(day)
    /\ hw = [t \in Types |-> FALSE]
    /\ calls = [s \in SessionIds |-> [enable |-> 0, disable |-> 0, by |-> {}]]
    /\ ops = 0

Monday == [weekday |-> 0, holiday |-> FALSE]

Init ==
    /\ \E ct \in ControlTypes : InitServer(InitStore(ct), Monday)
    /\ InitAdapters(Configured)

\* ------------------------------------------------------ common transitions
Goto(p, label, locals) ==
    /\ pc' = [pc EXCEPT ![p] = label]
    /\ loc' = [loc EXCEPT ![p] = locals]

\* The handler ends with an HTTP response.
Reply(p, r) ==
    /\ pc' = [pc EXCEPT ![p] = "done"]
    /\ loc' = [loc EXCEPT ![p] = Idle]
    /\ resp' = [resp EXCEPT ![p] = r]

HttpError(op, code) == [op |-> op, code |-> code]

\* HTTPException(status_code=400, detail=...)
BadRequest(op, detail) == [op |-> op, code |-> 400, detail |-> detail]

\* An exception left the handler: the framework answers 500.
ServerError(op, what) == [op |-> op, code |-> 500, error |-> what]

\* A request or a refill run begins.
Begin ==
    /\ ops < MaxOps
    /\ ops' = ops + 1

\* The child requests are served by interchangeable coroutines: a request
\* takes the second only while the first is busy.
Free(p) == pc[p] = "idle" /\ (p = "r2" => pc["r1"] # "idle")

\* commit(): the transaction's writes become the committed store.
CommitTx(p) ==
    /\ lock = p
    /\ db' = tx
    /\ tx' = NoRow
    /\ lock' = "none"

\* A faulty variant: every statement is committed on its own (autocommit).
WriteTx_autocommit(p, w) ==
    /\ CanWrite(p)
    /\ db' = w
    /\ tx' = w
    /\ lock' = p

\* A write statement of p that turns the store it sees into w.
WriteTx(p, w) ==
    /\ CanWrite(p)
    /\ tx' = w
    /\ lock' = p
    /\ UNCHANGED db

\* The connection is closed without commit(): the transaction is rolled back.
Rollback(p) ==
    /\ tx' = IF lock = p THEN NoRow ELSE tx
    /\ lock' = IF lock = p THEN "none" ELSE lock
    /\ UNCHANGED db

\* One more enable call for session s, one more disable call by operation op.
CountEnable(s) == [calls EXCEPT ![s].enable = Min(@ + 1, MaxCalls)]
CountDisable(s, op) ==
    [calls EXCEPT ![s].disable = Min(@ + 1, MaxCalls), ![s].by = @ \cup {op}]

\* The device after an adapter call with outcome o that asked for state want.
Actuate(type, o, want) == IF o = "true" THEN [hw EXCEPT ![type] = want] ELSE hw

\* _get_tv_device (sessions.py 20-27) and the same SELECT in admin.py and
\* scheduler.py: the active tv device's control_type.
_get_tv_device(store) == store.tv_device.control_type

Enable(type, control_type) ==
    IF type = "tv" THEN tv_freigeben(control_type) ELSE nintendo_call

Disable(type, control_type) ==
    IF type = "tv" THEN tv_sperren(control_type) ELSE nintendo_call

\* A faulty variant: the check for an active session finds nothing.
ActiveOf_none(store, child_id) == {}

\* A faulty variant: a session whose ends_at has passed no longer counts.
ActiveOf_running(store, child_id) ==
    {i \in 1..Len(store.sessions) :
        /\ store.sessions[i] # NoRow
        /\ store.sessions[i].child_id = child_id
        /\ store.sessions[i].status = "active"
        /\ store.sessions[i].ends_at > now}

ActiveOf(store, child_id) ==
    {i \in 1..Len(store.sessions) :
        /\ store.sessions[i] # NoRow
        /\ store.sessions[i].child_id = child_id
        /\ store.sessions[i].status = "active"}

\* A faulty variant: the SELECT leaves out AND status='active'.
ActiveSession_any(store, session_id) ==
    IF session_id \in 1..Len(store.sessions) THEN store.sessions[session_id]
    ELSE NoRow

\* SELECT * FROM sessions WHERE id=? AND status='active'
ActiveSession(store, session_id) ==
    IF /\ session_id \in 1..Len(store.sessions)
       /\ store.sessions[session_id] # NoRow
       /\ store.sessions[session_id].status = "active"
    THEN store.sessions[session_id]
    ELSE NoRow

\* UPDATE sessions SET status=? WHERE id=?
SetStatus(store, session_id, status) ==
    IF session_id \in 1..Len(store.sessions) /\ store.sessions[session_id] # NoRow
    THEN [store EXCEPT !.sessions[session_id].status = status]
    ELSE store

\* A faulty variant: one coin is taken whatever the request asked for.
Debit_one(store, child_id, type, coins) ==
    IF store.children[child_id] = NoRow THEN store
    ELSE [store EXCEPT !.children[child_id].coins[type] = @ - 1]

\* UPDATE children SET <type>_coins = <type>_coins - ? WHERE id = ?
Debit(store, child_id, type, coins) ==
    IF store.children[child_id] = NoRow THEN store
    ELSE [store EXCEPT !.children[child_id].coins[type] = @ - coins]

\* UPDATE children SET <type>_coins = ? WHERE id = ?
SetCoins(store, child_id, type, value) ==
    IF store.children[child_id] = NoRow THEN store
    ELSE [store EXCEPT !.children[child_id].coins[type] = value]

LogEntry(child_id, type, delta, reason) ==
    [child_id |-> child_id, type |-> type, delta |-> delta, reason |-> reason]

InsertLog(store, entry) == [store EXCEPT !.coin_log = Append(@, entry)]

\* A faulty variant: every session lasts one coin's time.
SessionRow_one(child_id, type, started_at, ends_at, coins_used) ==
    [child_id |-> child_id, type |-> type, started_at |-> started_at,
     ends_at |-> started_at + COIN_MINUTES, coins_used |-> coins_used,
     status |-> "active"]

SessionRow(child_id, type, started_at, ends_at, coins_used) ==
    [child_id |-> child_id, type |-> type, started_at |-> started_at,
     ends_at |-> ends_at, coins_used |-> coins_used, status |-> "active"]

InsertSession(store, row) == [store EXCEPT !.sessions = Append(@, row)]

\* ---------------------------------------------------------- start_session
\* A faulty variant: the balance is checked before the time window.
start_session_balance_first(p, sub, child_id, type, coins) ==
    /\ Free(p)
    /\ Begin
    /\ LET child == View(p).children[child_id]
           active == get_active_periods(child.allowed_periods,
                                        child.weekend_periods, weekend)
       IN  IF sub # child_id THEN Reply(p, HttpError("start_session", 403))
           ELSE IF type \notin Types THEN Reply(p, BadRequest("start_session", "type"))
           ELSE IF coins < 1 THEN Reply(p, BadRequest("start_session", "coins"))
           ELSE IF type = "switch" /\ coins > SWITCH_MAX_COINS THEN
               Reply(p, BadRequest("start_session", "switch_max"))
           ELSE IF child = NoRow THEN Reply(p, HttpError("start_session", 404))
           ELSE IF child.coins[type] < coins THEN
               Reply(p, [op |-> "start_session", code |-> 400,
                         available |-> child.coins[type]])
           ELSE IF ~is_in_periods(active, now % DayMinutes) THEN
               Reply(p, [op |-> "start_session", code |-> 403, periods |-> active])
           ELSE /\ Goto(p, "ss_existing",
                        [op |-> "start_session", child_id |-> child_id,
                         type |-> type, coins |-> coins])
                /\ UNCHANGED resp
    /\ UNCHANGED <<db, tx, lock, now, weekend, hw, calls, avars>>

\* sessions.py 41-77: the request's own checks, SELECT children, the time
\* window and the balance.
start_session(p, sub, child_id, type, coins) ==
    /\ Free(p)
    /\ Begin
    /\ LET child == View(p).children[child_id]
           active == get_active_periods(child.allowed_periods,
                                        child.weekend_periods, weekend)
       IN  IF sub # child_id THEN Reply(p, HttpError("start_session", 403))
           ELSE IF type \notin Types THEN Reply(p, BadRequest("start_session", "type"))
           ELSE IF coins < 1 THEN Reply(p, BadRequest("start_session", "coins"))
           ELSE IF type = "switch" /\ coins > SWITCH_MAX_COINS THEN
               Reply(p, BadRequest("start_session", "switch_max"))
           ELSE IF child = NoRow THEN Reply(p, HttpError("start_session", 404))
           ELSE IF ~is_in_periods(active, now % DayMinutes) THEN
               Reply(p, [op |-> "start_session", code |-> 403, periods |-> active])
           ELSE IF child.coins[type] < coins THEN
               Reply(p, [op |-> "start_session", code |-> 400,
                         available |-> child.coins[type]])
           ELSE /\ Goto(p, "ss_existing",
                        [op |-> "start_session", child_id |-> child_id,
                         type |-> type, coins |-> coins])
                /\ UNCHANGED resp
    /\ UNCHANGED <<db, tx, lock, now, weekend, hw, calls, avars>>

\* A faulty variant: the debit is written before the active-session check.
ss_existing_late(p) ==
    /\ pc[p] = "ss_existing"
    /\ WriteTx(p, Debit(View(p), loc[p].child_id, loc[p].type, loc[p].coins))
    /\ IF ActiveOf(db, loc[p].child_id) # {} THEN
           Reply(p, HttpError("start_session", 409))
       ELSE /\ Goto(p, "ss_update",
                    [op |-> "start_session", child_id |-> loc[p].child_id,
                     type |-> loc[p].type, coins |-> loc[p].coins,
                     now |-> now,
                     ends_at |-> now + loc[p].coins * COIN_MINUTES])
            /\ UNCHANGED resp
    /\ UNCHANGED <<now, weekend, hw, calls, ops, avars>>

\* sessions.py 79-92: SELECT the child's active sessions; fix now and ends_at.
ss_existing(p) ==
    /\ pc[p] = "ss_existing"
    /\ IF ActiveOf(View(p), loc[p].child_id) # {} THEN
           Reply(p, HttpError("start_session", 409))
       ELSE /\ Goto(p, "ss_update",
                    [op |-> "start_session", child_id |-> loc[p].child_id,
                     type |-> loc[p].type, coins |-> loc[p].coins,
                     now |-> now,
                     ends_at |-> now + loc[p].coins * COIN_MINUTES])
            /\ UNCHANGED resp
    /\ UNCHANGED <<db, tx, lock, now, weekend, hw, calls, ops, avars>>

\* sessions.py 94-97
ss_update(p) ==
    /\ pc[p] = "ss_update"
    /\ WriteTx(p, Debit(View(p), loc[p].child_id, loc[p].type, loc[p].coins))
    /\ pc' = [pc EXCEPT ![p] = "ss_log"]
    /\ UNCHANGED <<loc, resp, now, weekend, hw, calls, ops, avars>>

\* sessions.py 100-103
ss_log(p) ==
    /\ pc[p] = "ss_log"
    /\ WriteTx(p, InsertLog(View(p),
                  LogEntry(loc[p].child_id, loc[p].type, -loc[p].coins, "session")))
    /\ pc' = [pc EXCEPT ![p] = "ss_insert"]
    /\ UNCHANGED <<loc, resp, now, weekend, hw, calls, ops, avars>>

\* sessions.py 106-110: INSERT INTO sessions; session_id = lastrowid
ss_insert(p) ==
    /\ pc[p] = "ss_insert"
    /\ WriteTx(p, InsertSession(View(p),
                  SessionRow(loc[p].child_id, loc[p].type, loc[p].now,
                             loc[p].ends_at, loc[p].coins)))
    /\ Goto(p, "ss_commit",
            [op |-> "start_session", child_id |-> loc[p].child_id,
             type |-> loc[p].type, coins |-> loc[p].coins,
             now |-> loc[p].now, ends_at |-> loc[p].ends_at,
             session_id |-> Len(View(p).sessions) + 1])
    /\ UNCHANGED <<resp, now, weekend, hw, calls, ops, avars>>

\* sessions.py 112
ss_commit(p) ==
    /\ pc[p] = "ss_commit"
    /\ CommitTx(p)
    /\ pc' = [pc EXCEPT ![p] = "ss_hw"]
    /\ UNCHANGED <<loc, resp, now, weekend, hw, calls, ops, avars>>

SessionResponse(p, ok) ==
    [op |-> "start_session", code |-> 200, id |-> loc[p].session_id,
     child_id |-> loc[p].child_id, type |-> loc[p].type,
     started_at |-> loc[p].now, ends_at |-> loc[p].ends_at,
     coins_used |-> loc[p].coins, status |-> "active", hardware_ok |-> ok]

\* A faulty variant: a failed enable cancels the session.
AfterEnable_cancel(store, session_id, o) ==
    IF o = "false" THEN SetStatus(store, session_id, "cancelled") ELSE store

\* sessions.py 122-126: a failed enable is logged; the store is not touched.
AfterEnable(store, session_id, o) == store

\* sessions.py 114-137: enable the hardware, answer.
ss_hw(p) ==
    /\ pc[p] = "ss_hw"
    /\ \E o \in Enable(loc[p].type, _get_tv_device(View(p))) :
          /\ hw' = Actuate(loc[p].type, o, TRUE)
          /\ db' = AfterEnable(db, loc[p].session_id, o)
          /\ IF o = "raise" THEN Reply(p, ServerError("start_session", "TypeError"))
                            ELSE Reply(p, SessionResponse(p, o = "true"))
    /\ calls' = CountEnable(loc[p].session_id)
    /\ UNCHANGED <<tx, lock, now, weekend, ops, avars>>

\* The body.coins values tried (SessionStart.coins is any int).
CoinsAsked == 0..3

StartSessionSteps(p) ==
    \/ \E sub \in Children, c \in Children, t \in Types \cup {"x"}, n \in CoinsAsked :
          start_session(p, sub, c, t, n)
    \/ ss_existing(p)
    \/ ss_update(p)
    \/ ss_log(p)
    \/ ss_insert(p)
    \/ ss_commit(p)
    \/ ss_hw(p)

\* ------------------------------------------------------------ end_session
\* A faulty variant: the owner of the session is not checked.
end_session_anyone(p, sub, session_id) ==
    /\ Free(p)
    /\ Begin
    /\ LET session == ActiveSession(View(p), session_id)
       IN  IF session = NoRow THEN Reply(p, HttpError("end_session", 404))
           ELSE /\ Goto(p, "es_update",
                        [op |-> "end_session", session_id |-> session_id,
                         type |-> session.type])
                /\ UNCHANGED resp
    /\ UNCHANGED <<db, tx, lock, now, weekend, hw, calls, avars>>

\* sessions.py 147-156: SELECT the active session, check its owner.
end_session(p, sub, session_id) ==
    /\ Free(p)
    /\ Begin
    /\ LET session == ActiveSession(View(p), session_id)
       IN  IF session = NoRow THEN Reply(p, HttpError("end_session", 404))
           ELSE IF session.child_id # sub THEN Reply(p, HttpError("end_session", 403))
           ELSE /\ Goto(p, "es_update",
                        [op |-> "end_session", session_id |-> session_id,
                         type |-> session.type])
                /\ UNCHANGED resp
    /\ UNCHANGED <<db, tx, lock, now, weekend, hw, calls, avars>>

\* sessions.py 158-160
es_update(p) ==
    /\ pc[p] = "es_update"
    /\ WriteTx(p, SetStatus(View(p), loc[p].session_id, "completed"))
    /\ pc' = [pc EXCEPT ![p] = "es_commit"]
    /\ UNCHANGED <<loc, resp, now, weekend, hw, calls, ops, avars>>

\* sessions.py 161
es_commit(p) ==
    /\ pc[p] = "es_commit"
    /\ CommitTx(p)
    /\ pc' = [pc EXCEPT ![p] = "es_hw"]
    /\ UNCHANGED <<loc, resp, now, weekend, hw, calls, ops, avars>>

\* sessions.py 163-170: disable the hardware, answer.
es_hw(p) ==
    /\ pc[p] = "es_hw"
    /\ \E o \in Disable(loc[p].type, _get_tv_device(View(p))) :
          /\ hw' = Actuate(loc[p].type, o, FALSE)
          /\ IF o = "raise" THEN Reply(p, ServerError("end_session", "TypeError"))
                            ELSE Reply(p, [op |-> "end_session", code |-> 200,
                                           status |-> "completed"])
    /\ calls' = CountDisable(loc[p].session_id, loc[p].op)
    /\ UNCHANGED <<db, tx, lock, now, weekend, ops, avars>>

EndSessionSteps(p) ==
    \/ \E sub \in Children, s \in SessionIds : end_session(p, sub, s)
    \/ es_update(p)
    \/ es_commit(p)
    \/ es_hw(p)

\* --------------------------------------------------- admin_cancel_session
\* admin.py 198-203
admin_cancel_session(p, session_id) ==
    /\ pc[p] = "idle"
    /\ Begin
    /\ LET session == ActiveSession(View(p), session_id)
       IN  IF session = NoRow THEN Reply(p, HttpError("admin_cancel_session", 404))
           ELSE /\ Goto(p, "cs_update",
                        [op |-> "admin_cancel_session", session_id |-> session_id,
                         type |-> session.type])
                /\ UNCHANGED resp
    /\ UNCHANGED <<db, tx, lock, now, weekend, hw, calls, avars>>

\* A faulty variant: the forced stop marks the session 'completed'.
cs_update_completed(p) ==
    /\ pc[p] = "cs_update"
    /\ WriteTx(p, SetStatus(View(p), loc[p].session_id, "completed"))
    /\ pc' = [pc EXCEPT ![p] = "cs_commit"]
    /\ UNCHANGED <<loc, resp, now, weekend, hw, calls, ops, avars>>

\* admin.py 205-207
cs_update(p) ==
    /\ pc[p] = "cs_update"
    /\ WriteTx(p, SetStatus(View(p), loc[p].session_id, "cancelled"))
    /\ pc' = [pc EXCEPT ![p] = "cs_commit"]
    /\ UNCHANGED <<loc, resp, now, weekend, hw, calls, ops, avars>>

\* admin.py 208
cs_commit(p) ==
    /\ pc[p] = "cs_commit"
    /\ CommitTx(p)
    /\ pc' = [pc EXCEPT ![p] = "cs_hw"]
    /\ UNCHANGED <<loc, resp, now, weekend, hw, calls, ops, avars>>

\* admin.py 210-221
cs_hw(p) ==
    /\ pc[p] = "cs_hw"
    /\ \E o \in Disable(loc[p].type, _get_tv_device(View(p))) :
          /\ hw' = Actuate(loc[p].type, o, FALSE)
          /\ IF o = "raise" THEN
                 Reply(p, ServerError("admin_cancel_session", "TypeError"))
             ELSE Reply(p, [op |-> "admin_cancel_session", code |-> 200])
    /\ calls' = CountDisable(loc[p].session_id, loc[p].op)
    /\ UNCHANGED <<db, tx, lock, now, weekend, ops, avars>>

CancelSessionSteps(p) ==
    \/ \E s \in SessionIds : admin_cancel_session(p, s)
    \/ cs_update(p)
    \/ cs_commit(p)
    \/ cs_hw(p)

\* ----------------------------------------------------- admin_adjust_coins
\* admin.py 150-160: check the type, SELECT the child, clamp the new value.
admin_adjust_coins(p, child_id, type, delta) ==
    /\ pc[p] = "idle"
    /\ Begin
    /\ LET child == View(p).children[child_id]
       IN  IF type \notin Types THEN Reply(p, HttpError("admin_adjust_coins", 400))
           ELSE IF child = NoRow THEN Reply(p, HttpError("admin_adjust_coins", 404))
           ELSE /\ Goto(p, "ac_update",
                        [op |-> "admin_adjust_coins", child_id |-> child_id,
                         type |-> type, delta |-> delta,
                         new_val |-> Max(0, Min(child.coins[type] + delta,
                                                child.max[type]))])
                /\ UNCHANGED resp
    /\ UNCHANGED <<db, tx, lock, now, weekend, hw, calls, avars>>

\* admin.py 162-164
ac_update(p) ==
    /\ pc[p] = "ac_update"
    /\ WriteTx(p, SetCoins(View(p), loc[p].child_id, loc[p].type, loc[p].new_val))
    /\ pc' = [pc EXCEPT ![p] = "ac_log"]
    /\ UNCHANGED <<loc, resp, now, weekend, hw, calls, ops, avars>>

\* admin.py 165-169
ac_log(p) ==
    /\ pc[p] = "ac_log"
    /\ WriteTx(p, InsertLog(View(p),
                  LogEntry(loc[p].child_id, loc[p].type, loc[p].delta, "admin_adjust")))
    /\ pc' = [pc EXCEPT ![p] = "ac_commit"]
    /\ UNCHANGED <<loc, resp, now, weekend, hw, calls, ops, avars>>

\* admin.py 170-171
ac_commit(p) ==
    /\ pc[p] = "ac_commit"
    /\ CommitTx(p)
    /\ Reply(p, [op |-> "admin_adjust_coins", code |-> 200,
                 new_value |-> loc[p].new_val])
    /\ UNCHANGED <<now, weekend, hw, calls, ops, avars>>

AdjustCoinsSteps(p) ==
    \/ \E c \in Children, t \in {"tv", "x"}, d \in {-3, 2} :
          admin_adjust_coins(p, c, t, d)
    \/ ac_update(p)
    \/ ac_log(p)
    \/ ac_commit(p)

\* ----------------------------------------------------- admin_update_child
CoinField(t) == IF t = "switch" THEN "switch_coins" ELSE "tv_coins"
WeeklyField(t) == IF t = "switch" THEN "switch_coins_weekly" ELSE "tv_coins_weekly"
MaxField(t) == IF t = "switch" THEN "switch_coins_max" ELSE "tv_coins_max"

Given(body, field, old) == IF field \in DOMAIN body THEN body[field] ELSE old

\* UPDATE children SET <the fields the body gives> WHERE id=?
UpdateChild(store, child_id, body) ==
    IF store.children[child_id] = NoRow THEN store
    ELSE LET row == store.children[child_id]
         IN  [store EXCEPT !.children[child_id] =
                [row EXCEPT
                   !.coins = [t \in Types |-> Given(body, CoinField(t), row.coins[t])],
                   !.weekly = [t \in Types |-> Given(body, WeeklyField(t), row.weekly[t])],
                   !.max = [t \in Types |-> Given(body, MaxField(t), row.max[t])]]]

\* The request bodies tried: each gives one field (ChildUpdate takes any int).
UpdateBodies ==
    { [tv_coins_max |-> 1], [tv_coins |-> 5] }

\* admin.py 90-117
admin_update_child(p, child_id, body) ==
    /\ pc[p] = "idle"
    /\ Begin
    /\ IF View(p).children[child_id] = NoRow THEN
           Reply(p, HttpError("admin_update_child", 404))
       ELSE /\ Goto(p, "au_update",
                    [op |-> "admin_update_child", child_id |-> child_id,
                     body |-> body])
            /\ UNCHANGED resp
    /\ UNCHANGED <<db, tx, lock, now, weekend, hw, calls, avars>>

\* admin.py 119-124
au_update(p) ==
    /\ pc[p] = "au_update"
    /\ WriteTx(p, UpdateChild(View(p), loc[p].child_id, loc[p].body))
    /\ pc' = [pc EXCEPT ![p] = "au_commit"]
    /\ UNCHANGED <<loc, resp, now, weekend, hw, calls, ops, avars>>

\* admin.py 125-127
au_commit(p) ==
    /\ pc[p] = "au_commit"
    /\ CommitTx(p)
    /\ Reply(p, [op |-> "admin_update_child", code |-> 200])
    /\ UNCHANGED <<now, weekend, hw, calls, ops, avars>>

UpdateChildSteps(p) ==
    \/ \E c \in Children, b \in UpdateBodies : admin_update_child(p, c, b)
    \/ au_update(p)
    \/ au_commit(p)

\* ----------------------------------------------------- admin_delete_child
DeleteChild(store, child_id) == [store EXCEPT !.children[child_id] = NoRow]

DeleteSessions(store, child_id) ==
    [store EXCEPT !.sessions =
        [i \in 1..Len(@) |->
            IF @[i] # NoRow /\ @[i].child_id = child_id THEN NoRow ELSE @[i]]]

KeepOthers(e, child_id) == e.child_id # child_id

DeleteLog(store, child_id) ==
    [store EXCEPT !.coin_log =
        LET keep(e) == KeepOthers(e, child_id) IN SelectSeq(@, keep)]

\* admin.py 136
admin_delete_child(p, child_id) ==
    /\ pc[p] = "idle"
    /\ Begin
    /\ WriteTx(p, DeleteChild(View(p), child_id))
    /\ Goto(p, "ad_sessions", [op |-> "admin_delete_child", child_id |-> child_id])
    /\ UNCHANGED <<resp, now, weekend, hw, calls, avars>>

\* admin.py 137
ad_sessions(p) ==
    /\ pc[p] = "ad_sessions"
    /\ WriteTx(p, DeleteSessions(View(p), loc[p].child_id))
    /\ pc' = [pc EXCEPT ![p] = "ad_log"]
    /\ UNCHANGED <<loc, resp, now, weekend, hw, calls, ops, avars>>

\* admin.py 138
ad_log(p) ==
    /\ pc[p] = "ad_log"
    /\ WriteTx(p, DeleteLog(View(p), loc[p].child_id))
    /\ pc' = [pc EXCEPT ![p] = "ad_commit"]
    /\ UNCHANGED <<loc, resp, now, weekend, hw, calls, ops, avars>>

\* admin.py 139-140
ad_commit(p) ==
    /\ pc[p] = "ad_commit"
    /\ CommitTx(p)
    /\ Reply(p, [op |-> "admin_delete_child", code |-> 200])
    /\ UNCHANGED <<now, weekend, hw, calls, ops, avars>>

DeleteChildSteps(p) ==
    \/ \E c \in Children : admin_delete_child(p, c)
    \/ ad_sessions(p)
    \/ ad_log(p)
    \/ ad_commit(p)

\* ----------------------------------------------------- weekly_coin_refill
\* The ids of the rows of SELECT * FROM children, in rowid order.
RECURSIVE RowIds(_, _)
RowIds(children, from) ==
    IF from \notin Children THEN << >>
    ELSE IF children[from] = NoRow THEN RowIds(children, from + 1)
    ELSE <<from>> \o RowIds(children, from + 1)

\* A faulty variant: the refill is not capped.
Refilled_uncapped(child, t) == child.coins[t] + child.weekly[t]

\* scheduler.py 30-37: min(coins + weekly, max)
Refilled(child, t) == Min(child.coins[t] + child.weekly[t], child.max[t])

\* UPDATE children SET switch_coins=?, tv_coins=? WHERE id=?
SetBoth(store, child_id, new_coins) ==
    IF store.children[child_id] = NoRow THEN store
    ELSE [store EXCEPT !.children[child_id].coins = new_coins]

\* scheduler.py 45-57: a row per type whose delta is positive
RefillLog(store, child_id, child) ==
    LET d(t) == Refilled(child, t) - child.coins[t]
        s1 == IF d("switch") > 0
              THEN InsertLog(store, LogEntry(child_id, "switch", d("switch"), "weekly_refill"))
              ELSE store
    IN  IF d("tv") > 0
        THEN InsertLog(s1, LogEntry(child_id, "tv", d("tv"), "weekly_refill"))
        ELSE s1

\* scheduler.py 24-28: the job starts and reads all children.
weekly_coin_refill(p) ==
    /\ pc[p] = "idle"
    /\ Begin
    /\ LET ids == RowIds(View(p).children, 1)
       IN  IF ids = << >> THEN UNCHANGED <<pc, loc>>
           ELSE Goto(p, "wr_update",
                     [op |-> "weekly_coin_refill", children |-> View(p).children,
                      ids |-> ids, i |-> 1])
    /\ UNCHANGED <<db, tx, lock, resp, now, weekend, hw, calls, avars>>

\* scheduler.py 29-43: the new balances come from the rows read at the start.
wr_update(p) ==
    /\ pc[p] = "wr_update"
    /\ LET c == loc[p].ids[loc[p].i]
           child == loc[p].children[c]
       IN  WriteTx(p, SetBoth(View(p), c, [t \in Types |-> Refilled(child, t)]))
    /\ pc' = [pc EXCEPT ![p] = "wr_log"]
    /\ UNCHANGED <<loc, resp, now, weekend, hw, calls, ops, avars>>

\* scheduler.py 45-57, and the loop's next round
wr_log(p) ==
    /\ pc[p] = "wr_log"
    /\ LET c == loc[p].ids[loc[p].i]
       IN  WriteTx(p, RefillLog(View(p), c, loc[p].children[c]))
    /\ IF loc[p].i < Len(loc[p].ids)
       THEN Goto(p, "wr_update", [loc[p] EXCEPT !.i = @ + 1])
       ELSE Goto(p, "wr_commit", loc[p])
    /\ UNCHANGED <<resp, now, weekend, hw, calls, ops, avars>>

\* scheduler.py 64
wr_commit(p) ==
    /\ pc[p] = "wr_commit"
    /\ CommitTx(p)
    /\ Goto(p, "idle", Idle)
    /\ UNCHANGED <<resp, now, weekend, hw, calls, ops, avars>>

RefillSteps(p) ==
    \/ weekly_coin_refill(p)
    \/ wr_update(p)
    \/ wr_log(p)
    \/ wr_commit(p)

\* -------------------------------------------------------- expire_sessions
\* SELECT * FROM sessions WHERE status='active' AND ends_at <= ?, in id order
RECURSIVE Overdue(_, _, _)
Overdue(sessions, from, t) ==
    IF from > Len(sessions) THEN << >>
    ELSE IF /\ sessions[from] # NoRow
            /\ sessions[from].status = "active"
            /\ sessions[from].ends_at <= t
         THEN <<[id |-> from, type |-> sessions[from].type]>>
              \o Overdue(sessions, from + 1, t)
         ELSE Overdue(sessions, from + 1, t)

\* scheduler.py 70-76: the sweep starts; one that selects nothing does nothing.
expire_sessions(p) ==
    /\ pc[p] = "idle"
    /\ LET expired == Overdue(View(p).sessions, 1, now)
       IN  /\ expired # << >>
           /\ Goto(p, "ex_update",
                   [op |-> "expire_sessions", expired |-> expired, i |-> 1])
    /\ UNCHANGED <<db, tx, lock, resp, now, weekend, hw, calls, ops, avars>>

\* scheduler.py 78-82
ex_update(p) ==
    /\ pc[p] = "ex_update"
    /\ WriteTx(p, SetStatus(View(p), loc[p].expired[loc[p].i].id, "completed"))
    /\ pc' = [pc EXCEPT ![p] = "ex_hw"]
    /\ UNCHANGED <<loc, resp, now, weekend, hw, calls, ops, avars>>

\* scheduler.py 89-99: the disable call is made inside the open transaction; an
\* exception leaves the `async with` block, which closes the connection.
ex_hw(p) ==
    /\ pc[p] = "ex_hw"
    /\ LET session == loc[p].expired[loc[p].i]
       IN  /\ \E o \in Disable(session.type, _get_tv_device(View(p))) :
                /\ hw' = Actuate(session.type, o, FALSE)
                /\ IF o = "raise" THEN
                       /\ Rollback(p)
                       /\ Goto(p, "idle", Idle)
                   ELSE IF loc[p].i < Len(loc[p].expired) THEN
                       /\ Goto(p, "ex_update", [loc[p] EXCEPT !.i = @ + 1])
                       /\ UNCHANGED <<db, tx, lock>>
                   ELSE
                       /\ Goto(p, "ex_commit", loc[p])
                       /\ UNCHANGED <<db, tx, lock>>
           /\ calls' = CountDisable(session.id, loc[p].op)
    /\ UNCHANGED <<resp, now, weekend, ops, avars>>

\* scheduler.py 101-102
ex_commit(p) ==
    /\ pc[p] = "ex_commit"
    /\ CommitTx(p)
    /\ Goto(p, "idle", Idle)
    /\ UNCHANGED <<resp, now, weekend, hw, calls, ops, avars>>

ExpireSteps(p) ==
    \/ expire_sessions(p)
    \/ ex_update(p)
    \/ ex_hw(p)
    \/ ex_commit(p)

\* -------------------------------------------------------------- the rest
\* The response is sent; the handler and its connection are gone.
Finish(p) ==
    /\ pc[p] = "done"
    /\ pc' = [pc EXCEPT ![p] = "idle"]
    /\ loc' = [loc EXCEPT ![p] = Idle]
    /\ resp' = [resp EXCEPT ![p] = NoResp]
    /\ UNCHANGED <<db, tx, lock, now, weekend, hw, calls, ops, avars>>

Tick ==
    /\ now < StartNow + MaxTicks * COIN_MINUTES
    /\ now' = now + COIN_MINUTES
    /\ UNCHANGED <<db, tx, lock, pc, loc, resp, weekend, hw, calls, ops, avars>>

\* The positions at which a handler issues the first write of its transaction.
FirstWrite == {"ss_update", "es_update", "cs_update", "ac_update", "au_update"}

\* sqlite3.connect's default busy timeout (5 s) is shorter than an adapter
\* call's (10 s per request): a handler that waits for the write lock while the
\* sweep holds it across a device call fails with "database is locked".
BusyTimeout(p) ==
    /\ pc[p] \in FirstWrite
    /\ lock = "exp"
    /\ pc["exp"] = "ex_hw"
    /\ Reply(p, ServerError(loc[p].op, "OperationalError"))
    /\ UNCHANGED <<db, tx, lock, now, weekend, hw, calls, ops, avars>>

\* database.py 139-143, run by init_db at every start
MigrateV6(store) ==
    IF store.tv_device.control_type = "mikrotik"
    THEN [store EXCEPT !.tv_device.control_type = "fritzbox"]
    ELSE store

\* The server process dies and is started again: every coroutine is gone, the
\* open transaction is rolled back, init_db runs its migrations.
Crash ==
    /\ \E p \in Procs : pc[p] # "idle"
    /\ db' = MigrateV6(db)
    /\ tx' = NoRow
    /\ lock' = "none"
    /\ pc' = [p \in Procs |-> "idle"]
    /\ loc' = [p \in Procs |-> Idle]
    /\ resp' = [p \in Procs |-> NoResp]
    /\ UNCHANGED <<now, weekend, hw, calls, ops, avars>>

Next ==
    \/ \E p \in ChildProcs : StartSessionSteps(p)
    \/ \E p \in ChildProcs : EndSessionSteps(p)
    \/ \E p \in AdminProcs : CancelSessionSteps(p)
    \/ \E p \in AdminProcs : AdjustCoinsSteps(p)
    \/ \E p \in AdminProcs : UpdateChildSteps(p)
    \/ \E p \in AdminProcs : DeleteChildSteps(p)
    \/ RefillSteps("ref")
    \/ ExpireSteps("exp")
    \/ \E p \in Procs : Finish(p)
    \/ \E p \in Procs : BusyTimeout(p)
    \/ Tick
    \/ Crash

Spec == Init /\ [][Next]_vars

\* ============================================ the adapters, request by request
\* fritzbox.py, mikrotik_direct.py, nintendo.py and nintendo_bridge.py taken
\* on their own: a caller enters an adapter function, every network request of
\* the function is one step, and the device, the network or the vendor's
\* cloud choose the answer.  Every request carries a timeout (httpx
\* timeout=10, aiohttp's default total timeout), so it always ends: with an
\* answer or with an exception ("error" covers the timeout).

server == <<db, tx, lock, pc, loc, resp, now, weekend, hw, calls, ops>>

\* The SIDs the router hands out.
Sids == {"1a2b3c4d5e6f7788", "99aa88bb77cc66dd"}

\* str.strip() on the texts the environments here hold
strip(text) == IF text = " " THEN "" ELSE text

Bool(b) == IF b THEN "true" ELSE "false"

NewCall(adapter, fn) ==
    [NoCall EXCEPT !.adapter = adapter, !.fn = fn, !.pc = "start"]

\* One more network request, answered with o.
Request(rec, o) == [rec EXCEPT !.requests = @ + 1, !.last = o]

\* The adapter function returns b.
Return(rec, b) == [rec EXCEPT !.pc = "return", !.result = b]

Step(c, rec) == call' = [call EXCEPT ![c] = rec]

Start(c) ==
    /\ call[c].fn = "idle"
    /\ ncalls < MaxAdapterCalls
    /\ ncalls' = ncalls + 1

\* mock.py 30-57: the simulated devices
MockBox(fn) ==
    CASE fn = "tv_freigeben" -> [box EXCEPT !.tv_unlocked = TRUE]
      [] fn = "tv_sperren" -> [box EXCEPT !.tv_unlocked = FALSE]
      [] fn = "switch_freigeben" -> [box EXCEPT !.switch_minutes = COIN_MINUTES]
      [] fn = "switch_sperren" -> [box EXCEPT !.switch_minutes = 0]
      [] OTHER -> box

MockResult(fn) == IF fn = "tv_status" THEN Bool(box.tv_unlocked) ELSE "true"

\* ---------------------------------------------------------------- fritzbox
_sid_is_valid(cache, t) ==
    /\ cache.sid # ""
    /\ cache.sid # SENTINEL
    /\ t < cache.expires_at

\* _get_sid: the cached SID, or "" where the code calls _login().
_get_sid(cache, t, force_refresh) ==
    IF ~force_refresh /\ _sid_is_valid(cache, t) THEN cache.sid ELSE ""

\* A faulty variant: _login stores whatever SID the router answers.
LoginStore_any(cache, sid, t) == [sid |-> sid, expires_at |-> t + _SID_TTL]

\* A faulty variant: the SID is stored, the expiry is left as it was.
LoginStore_sid_only(cache, sid, t) ==
    IF sid # SENTINEL THEN [cache EXCEPT !.sid = sid] ELSE cache

\* _login: a SID other than the sentinel is stored with its expiry.
LoginStore(cache, sid, t) ==
    IF sid # SENTINEL THEN [sid |-> sid, expires_at |-> t + _SID_TTL]
    ELSE cache

\* A faulty variant: any failed request of the first attempt is retried.
Retryable_any(o, attempt) == attempt = 0

\* _change_profile's except clause: status 403 on the first attempt
Retryable(o, attempt) == o = "403" /\ attempt = 0

\* sid = await _get_sid(force_refresh); if not sid: return False.  Up to the
\* first request nothing is awaited: the cache check, _login's password check
\* and the return are one step.
Attempt(rec, force_refresh) ==
    LET sid == _get_sid(_sid_cache, monotonic, force_refresh)
    IN  IF sid # "" THEN [rec EXCEPT !.sid = sid, !.pc = "device_uid"]
        ELSE IF env.FRITZBOX_PASS = "" THEN
            Return([rec EXCEPT !.logins = @ + 1], "false")
        ELSE [rec EXCEPT !.logins = @ + 1, !.pc = "login_get"]

\* tv_freigeben, tv_sperren, tv_status up to their first request
fritzbox_tv(c, fn) ==
    /\ Start(c)
    /\ LET rec == NewCall("fritzbox", fn)
       IN  IF USE_MOCK THEN
               /\ box' = MockBox(fn)
               /\ Step(c, Return(rec, MockResult(fn)))
           ELSE
               /\ box' = box
               /\ Step(c, IF env.FRITZBOX_HOST = "" THEN Return(rec, "false")
                          ELSE Attempt(rec, FALSE))
    /\ UNCHANGED <<server, today, env, _sid_cache, monotonic, _entry_id_cache>>

\* _login, GET login_sid.lua: the router answers an open session's SID, or
\* the sentinel with or without a challenge.
_login_get(c) ==
    /\ call[c].pc = "login_get"
    /\ \E a \in {"error", "challenge", "no_challenge"} \cup Sids \cup {""} :
          LET rec == Request(call[c], IF a \in Sids \cup {"challenge"} THEN "ok"
                                      ELSE IF a = "error" THEN a ELSE "no_sid")
              sid == IF a \in {"challenge", "no_challenge"} THEN SENTINEL ELSE a
          IN  IF a = "error" THEN
                  /\ Step(c, Return(rec, "false"))
                  /\ UNCHANGED _sid_cache
              ELSE
                  /\ _sid_cache' = LoginStore(_sid_cache, sid, monotonic)
                  /\ Step(c, IF a = "challenge" THEN [rec EXCEPT !.pc = "login_post"]
                             ELSE IF a \in Sids THEN
                                 [rec EXCEPT !.sid = a, !.pc = "device_uid"]
                             ELSE Return(rec, "false"))
    /\ UNCHANGED <<server, today, env, monotonic, _entry_id_cache, box, ncalls>>

\* _login, POST of the challenge response: a new SID, or the sentinel for a
\* wrong password.
_login_post(c) ==
    /\ call[c].pc = "login_post"
    /\ \E a \in {"error", SENTINEL} \cup Sids \cup {""} :
          LET rec == Request(call[c], IF a \in Sids THEN "ok"
                                      ELSE IF a = "error" THEN a ELSE "no_sid")
          IN  IF a = "error" THEN
                  /\ Step(c, Return(rec, "false"))
                  /\ UNCHANGED _sid_cache
              ELSE
                  /\ _sid_cache' = LoginStore(_sid_cache, a, monotonic)
                  /\ Step(c, IF a \in Sids THEN
                                 [rec EXCEPT !.sid = a, !.pc = "device_uid"]
                             ELSE Return(rec, "false"))
    /\ UNCHANGED <<server, today, env, monotonic, _entry_id_cache, box, ncalls>>

\* The except clauses of _change_profile (and of tv_status, which never
\* retries): invalidate and log in again, or return False.
Except(c, rec, o) ==
    IF rec.fn # "tv_status" /\ Retryable(o, rec.attempt) THEN
        /\ _sid_cache' = EmptyCache
        /\ Step(c, Attempt([rec EXCEPT !.attempt = @ + 1], TRUE))
    ELSE
        /\ UNCHANGED _sid_cache
        /\ Step(c, Return(rec, "false"))

\* _get_device_uid and _get_profile_id: one POST each; "missing" is an answer
\* without the device or the profile.
_lookup(c) ==
    /\ call[c].pc \in {"device_uid", "profile_id"}
    /\ \E o \in {"ok", "missing", "403", "http_error", "error"} :
          LET rec == Request(call[c], o)
          IN  IF o = "ok" THEN
                  /\ Step(c, [rec EXCEPT !.pc =
                                 IF @ = "device_uid" THEN "profile_id"
                                 ELSE IF rec.fn = "tv_status" THEN "read_profile"
                                 ELSE "set_profile"])
                  /\ UNCHANGED _sid_cache
              ELSE IF o = "missing" THEN
                  /\ Step(c, Return(rec, "false"))
                  /\ UNCHANGED _sid_cache
              ELSE Except(c, rec, o)
    /\ UNCHANGED <<server, today, env, monotonic, _entry_id_cache, box, ncalls>>

_set_profile(c) ==
    /\ call[c].pc = "set_profile"
    /\ \E o \in {"ok", "403", "http_error", "error"} :
          LET rec == Request(call[c], o)
          IN  IF o = "ok" THEN
                  /\ Step(c, Return(rec, "true"))
                  /\ box' = [box EXCEPT !.profile =
                                IF rec.fn = "tv_freigeben" THEN "Standard"
                                ELSE "Gesperrt"]
                  /\ UNCHANGED _sid_cache
              ELSE
                  /\ Except(c, rec, o)
                  /\ box' = box
    /\ UNCHANGED <<server, today, env, monotonic, _entry_id_cache, ncalls>>

\* tv_status's third POST: the device's current profile.
_read_profile(c) ==
    /\ call[c].pc = "read_profile"
    /\ \E o \in {"ok", "missing", "403", "http_error", "error"} :
          LET rec == Request(call[c], o)
          IN  Step(c, Return(rec, IF o = "ok" THEN Bool(box.profile = "Standard")
                                  ELSE "false"))
    /\ UNCHANGED <<server, today, env, _sid_cache, monotonic, _entry_id_cache,
                   box, ncalls>>

\* --------------------------------------------------------- mikrotik_direct
\* _get_cfg: the environment, stripped; the user under either name.
_get_cfg ==
    [host |-> strip(env.MIKROTIK_HOST),
     user |-> strip(IF env.MIKROTIK_USER # "" THEN env.MIKROTIK_USER
                    ELSE env.MIKROTIK_USERNAME),
     password |-> strip(env.MIKROTIK_PASS)]

\* A faulty variant: a third transport is tried.
_base_urls_three(host) ==
    IF host = "" THEN << >>
    ELSE << <<"https", host>>, <<"http", host>>, <<"http", host>> >>

\* A faulty variant: a host given with its scheme gets a fallback too.
_base_urls_both(host) ==
    IF host = "" THEN << >>
    ELSE << <<"https", host>>, <<"http", host>> >>

\* urlparse(host).scheme is set for "http://router" only.
_base_urls(host) ==
    IF host = "" THEN << >>
    ELSE IF host = "http://router" THEN << host >>
    ELSE << <<"https", host>>, <<"http", host>> >>

\* A faulty variant: the PATCH bodies are swapped.
Disabled_swapped(fn) == Bool(fn = "tv_sperren")

\* json={"disabled": "true"} in tv_freigeben, "false" in tv_sperren
Disabled(fn) == Bool(fn = "tv_freigeben")

\* A faulty variant: a user name is enough.
_has_credentials_user(user, password) == user # ""

_has_credentials(user, password) == user # "" /\ password # ""

\* A TransportError: the next base URL if there is one, else the loop ends.
NextUrl(rec, again) ==
    IF Len(rec.urls) > 1 THEN [rec EXCEPT !.pc = again, !.urls = Tail(@)]
    ELSE Return(rec, "false")

\* tv_freigeben, tv_sperren, tv_status up to their first request
mikrotik_tv(c, fn) ==
    /\ Start(c)
    /\ \E identifier \in Identifiers :
          LET rec == [NewCall("mikrotik_direct", fn) EXCEPT
                         !.identifier = identifier]
              cfg == _get_cfg
          IN  IF USE_MOCK THEN
                  /\ box' = MockBox(fn)
                  /\ Step(c, Return(rec, MockResult(fn)))
              ELSE
                  /\ box' = box
                  /\ Step(c, IF cfg.host = "" THEN Return(rec, "false")
                             ELSE IF ~_has_credentials(cfg.user, cfg.password) THEN
                                 Return(rec, "false")
                             ELSE [rec EXCEPT
                                      !.urls = _base_urls(cfg.host),
                                      !.pc = IF _entry_id_cache[identifier] # ""
                                             THEN "request"
                                             ELSE "entry_filtered"])
    /\ UNCHANGED <<server, today, env, _sid_cache, monotonic, _entry_id_cache>>

\* A faulty variant: the id is cached under the host alone.
_get_entry_id_by_host(c) ==
    /\ call[c].pc \in {"entry_filtered", "entry_all"}
    /\ \E o \in {"ok", "missing", "transport", "error"} :
          LET rec == Request(call[c], o)
          IN  /\ _entry_id_cache' =
                    IF o = "ok" THEN [i \in Identifiers |-> "*1"]
                    ELSE _entry_id_cache
              /\ Step(c, CASE o = "ok" ->
                                [rec EXCEPT !.pc = "request",
                                            !.urls = _base_urls(_get_cfg.host)]
                           [] o = "missing" ->
                                IF rec.pc = "entry_filtered"
                                THEN [rec EXCEPT !.pc = "entry_all"]
                                ELSE Return(rec, "false")
                           [] o = "transport" -> NextUrl(rec, "entry_filtered")
                           [] OTHER -> Return(rec, "false"))
    /\ UNCHANGED <<server, today, env, _sid_cache, monotonic, box, ncalls>>

\* _get_entry_id: the filtered GET, then the GET of the whole list
_get_entry_id(c) ==
    /\ call[c].pc \in {"entry_filtered", "entry_all"}
    /\ \E o \in {"ok", "missing", "transport", "error"} :
          LET rec == Request(call[c], o)
          IN  /\ _entry_id_cache' =
                    IF o = "ok"
                    THEN [_entry_id_cache EXCEPT ![rec.identifier] = "*1"]
                    ELSE _entry_id_cache
              /\ Step(c, CASE o = "ok" ->
                                [rec EXCEPT !.pc = "request",
                                            !.urls = _base_urls(_get_cfg.host)]
                           [] o = "missing" ->
                                IF rec.pc = "entry_filtered"
                                THEN [rec EXCEPT !.pc = "entry_all"]
                                ELSE Return(rec, "false")
                           [] o = "transport" -> NextUrl(rec, "entry_filtered")
                           [] OTHER -> Return(rec, "false"))
    /\ UNCHANGED <<server, today, env, _sid_cache, monotonic, box, ncalls>>

\* The PATCH of tv_freigeben / tv_sperren, the GET of tv_status
_entry_request(c) ==
    /\ call[c].pc = "request"
    /\ \E o \in {"ok", "transport", "error"} :
          LET rec == Request(call[c], o)
          IN  /\ box' = IF o = "ok" /\ rec.fn # "tv_status"
                        THEN [box EXCEPT !.disabled = Disabled(rec.fn)]
                        ELSE box
              /\ Step(c, CASE o = "ok" ->
                                Return(rec, IF rec.fn = "tv_status"
                                            THEN Bool(lower(box.disabled) = "true")
                                            ELSE "true")
                           [] o = "transport" -> NextUrl(rec, "request")
                           [] OTHER -> Return(rec, "false"))
    /\ UNCHANGED <<server, today, env, _sid_cache, monotonic, _entry_id_cache,
                   ncalls>>

\* ---------------------------------------------- nintendo, nintendo_bridge
\* A faulty variant: every HTTP error of the vendor counts as "already locked".
Caught_any(adapter, fn, at, o) ==
    fn = "switch_sperren" /\ o \in {"409", "http_error"}

\* What the call returns for an exception o raised at step `at`:
\* nintendo.py 72-74 and 97-102; nintendo_bridge.py 58-64 with 79-85.
Caught(adapter, fn, at, o) ==
    /\ fn = "switch_sperren"
    /\ o = "409"
    /\ adapter = "nintendo_bridge" => at = "vendor"

\* switch_freigeben / switch_sperren up to the first request; the bridge's
\* functions are handed the token and check nothing.
nintendo_switch(c, adapter, fn) ==
    /\ Start(c)
    /\ LET rec == NewCall(adapter, fn)
       IN  IF adapter = "nintendo" /\ USE_MOCK THEN
               /\ box' = MockBox(fn)
               /\ Step(c, Return(rec, MockResult(fn)))
           ELSE
               /\ box' = box
               /\ Step(c, IF /\ adapter = "nintendo"
                             /\ \/ env.NINTENDO_TOKEN = ""
                                \/ ~env.pynintendoparental
                          THEN Return(rec, "false")
                          ELSE [rec EXCEPT !.pc = "login"])
    /\ UNCHANGED <<server, today, env, _sid_cache, monotonic, _entry_id_cache>>

\* _get_first_device: the login and the account's devices
_get_first_device(c) ==
    /\ call[c].pc = "login"
    /\ \E o \in {"ok", "no_device", "409", "http_error", "error"} :
          LET rec == Request(call[c], o)
          IN  Step(c, IF o = "ok" THEN [rec EXCEPT !.pc = "vendor"]
                      ELSE IF o = "no_device" THEN Return(rec, "false")
                      ELSE Return(rec, Bool(Caught(rec.adapter, rec.fn, "login", o))))
    /\ UNCHANGED <<server, today, env, _sid_cache, monotonic, _entry_id_cache,
                   box, ncalls>>

\* device.add_extra_time(minutes) / device.update_max_daily_playtime(0)
_vendor_call(c) ==
    /\ call[c].pc = "vendor"
    /\ \E o \in {"ok", "409", "http_error", "error"} :
          LET rec == Request(call[c], o)
          IN  Step(c, IF o = "ok" THEN Return(rec, "true")
                      ELSE Return(rec, Bool(Caught(rec.adapter, rec.fn, "vendor", o))))
    /\ UNCHANGED <<server, today, env, _sid_cache, monotonic, _entry_id_cache,
                   box, ncalls>>

\* ------------------------------------------------------------------ the rest
\* The caller has the result.
Returned(c) ==
    /\ call[c].pc = "return"
    /\ Step(c, NoCall)
    /\ UNCHANGED <<server, today, env, _sid_cache, monotonic, _entry_id_cache,
                   box, ncalls>>

\* Ten minutes pass.
Elapse ==
    /\ monotonic < MaxMono * 600
    /\ monotonic' = monotonic + 600
    /\ UNCHANGED <<server, today, env, _sid_cache, _entry_id_cache, box, call,
                   ncalls>>

\* The environments tried: everything configured (the REST host with and
\* without a scheme), nothing configured (with and without the mock), and
\* one part missing at a time.
Configs ==
    { Configured,
      [Configured EXCEPT !.MIKROTIK_HOST = "http://router",
                         !.MIKROTIK_USER = "",
                         !.MIKROTIK_USERNAME = "admin"],
      Unset,
      [Unset EXCEPT !.USE_MOCK_ADAPTERS = "True"],
      [Unset EXCEPT !.FRITZBOX_HOST = "", !.FRITZBOX_PASS = "secret",
                    !.MIKROTIK_HOST = "router", !.MIKROTIK_USER = "admin"],
      [Unset EXCEPT !.MIKROTIK_HOST = "router", !.MIKROTIK_USER = " ",
                    !.MIKROTIK_PASS = "secret"],
      [Unset EXCEPT !.MIKROTIK_HOST = " ", !.MIKROTIK_USER = "admin",
                    !.MIKROTIK_PASS = "secret", !.NINTENDO_TOKEN = "token",
                    !.pynintendoparental = FALSE] }

AdapterInit ==
    /\ InitServer(InitStore("schedule_only"), Monday)
    /\ \E e \in Configs : InitAdapters(e)

AdapterStep(c) ==
    \/ _login_get(c)
    \/ _login_post(c)
    \/ _lookup(c)
    \/ _set_profile(c)
    \/ _read_profile(c)
    \/ _get_entry_id(c)
    \/ _entry_request(c)
    \/ _get_first_device(c)
    \/ _vendor_call(c)

AdapterNext ==
    \/ \E c \in Callers, fn \in {"tv_freigeben", "tv_sperren", "tv_status"} :
          fritzbox_tv(c, fn)
    \/ \E c \in Callers, fn \in {"tv_freigeben", "tv_sperren", "tv_status"} :
          mikrotik_tv(c, fn)
    \/ \E c \in Callers, a \in {"nintendo", "nintendo_bridge"},
          fn \in {"switch_freigeben", "switch_sperren"} :
          nintendo_switch(c, a, fn)
    \/ \E c \in Callers : AdapterStep(c)
    \/ \E c \in Callers : Returned(c)
    \/ Elapse

\* The event loop runs every coroutine that is ready, and every request ends
\* within its timeout: a call that can take a step takes it.
AdapterSpec ==
    /\ AdapterInit
    /\ [][AdapterNext]_vars
    /\ \A c \in Callers : WF_vars(AdapterStep(c))

\* ============================================= two router calls at once
\* A request handler and the scheduler's sweep are coroutines of one event
\* loop: both may be inside fritzbox._change_profile, suspended at different
\* requests, with the one _sid_cache between them.  The handler enables (as
\* start_session does), the sweep disables.
Concurrent == {"web", "job"}

SidInit ==
    /\ InitServer(InitStore("fritzbox"), Monday)
    /\ env = Configured
    /\ _sid_cache = EmptyCache
    /\ monotonic = 0
    /\ _entry_id_cache = [i \in Identifiers |-> ""]
    /\ box = [profile |-> "Gesperrt", disabled |-> "false",
              tv_unlocked |-> FALSE, switch_minutes |-> 0]
    /\ call = [c \in Concurrent |-> NoCall]
    /\ ncalls = 0

SidStep(c) ==
    \/ _login_get(c)
    \/ _login_post(c)
    \/ _lookup(c)
    \/ _set_profile(c)

SidNext ==
    \/ fritzbox_tv("web", "tv_freigeben")
    \/ fritzbox_tv("job", "tv_sperren")
    \/ \E c \in Concurrent : SidStep(c)
    \/ \E c \in Concurrent : Returned(c)

SidSpec ==
    /\ SidInit
    /\ [][SidNext]_vars
    /\ \A c \in Concurrent : WF_vars(SidStep(c))

\* ================================================ the time window on its own
\* start_session alone, on a Friday, a Friday that is a public holiday, a
\* Saturday and a Sunday, for a first child whose two period lists the admin
\* has set: empty, starting or ending at the request's minute or one minute
\* off, ending before they start, or of two periods.
Days ==
    { [weekday |-> 4, holiday |-> FALSE], [weekday |-> 4, holiday |-> TRUE],
      [weekday |-> 5, holiday |-> FALSE], [weekday |-> 6, holiday |-> FALSE] }

PeriodLists ==
    { << >>,
      << [von |-> HM(10, 0), bis |-> HM(12, 0)] >>,
      << [von |-> HM(8, 0), bis |-> HM(10, 0)] >>,
      << [von |-> HM(10, 1), bis |-> HM(12, 0)] >>,
      << [von |-> HM(8, 0), bis |-> HM(9, 59)] >>,
      << [von |-> HM(12, 0), bis |-> HM(8, 0)] >>,
      << [von |-> HM(8, 0), bis |-> HM(9, 0)],
         [von |-> HM(10, 30), bis |-> HM(11, 0)] >> }

PeriodsInit ==
    /\ \E day \in Days, a \in PeriodLists, w \in PeriodLists :
          InitServer([InitStore("schedule_only") EXCEPT
                          !.children[1].allowed_periods = a,
                          !.children[1].weekend_periods = w], day)
    /\ InitAdapters(Configured)

\* One client, one request at a time.
PeriodsNext ==
    \/ StartSessionSteps("r1")
    \/ Finish("r1")
    \/ Tick

PeriodsSpec == PeriodsInit /\ [][PeriodsNext]_vars

\* =================================================================== claims
Rows(store) == {i \in 1..Len(store.sessions) : store.sessions[i] # NoRow}

\* The step is the refill's commit (scheduler.py 64).
RefillCommits == pc["ref"] = "wr_commit" /\ lock = "ref" /\ db' = tx

\* C1: at every instant each child has at most one session row with status
\* 'active'; of two concurrent start_session requests for one child exactly one
\* succeeds.
C1_AtMostOneActive ==
    \A c \in Children : Cardinality(ActiveOf(db, c)) <= 1

\* C2: in every committed state each child's switch_coins and tv_coins satisfy
\* 0 <= balance <= the matching maximum.
C2_BalanceInRange ==
    \A c \in Children, t \in Types :
        db.children[c] # NoRow =>
            /\ 0 <= db.children[c].coins[t]
            /\ db.children[c].coins[t] <= db.children[c].max[t]

\* C3: a session leaves 'active' through exactly one of end_session,
\* admin_cancel_session and expire_sessions: no two of them make a device
\* disable call for the same session.
C3_OneEnder ==
    \A s \in SessionIds : Cardinality(calls[s].by) <= 1

\* C4: once a session row's committed status is 'completed' or 'cancelled' it
\* never changes again.
C4_TerminalImmutable ==
    [][\A i \in Rows(db) :
          (db.sessions[i].status \in {"completed", "cancelled"} /\ i \in Rows(db'))
             => db'.sessions[i].status = db.sessions[i].status]_vars

\* The log entries a step adds to the committed store.
NewLog ==
    IF Len(db'.coin_log) > Len(db.coin_log)
    THEN SubSeq(db'.coin_log, Len(db.coin_log) + 1, Len(db'.coin_log))
    ELSE << >>

\* C5: the commit of a start_session with coins = N lowers the child's balance
\* of the requested type by exactly N and leaves every other balance as it was,
\* appends exactly one coin_log entry (delta -N, reason 'session') and exactly
\* one session row (coins_used N, status 'active').  (A child row deleted in
\* the meantime has no balance to lower.)
C5_StartDebitsExactly ==
    [][\A p \in ChildProcs :
          (pc[p] = "ss_commit" /\ pc'[p] = "ss_hw") =>
             LET c == loc[p].child_id
                 t == loc[p].type
                 n == loc[p].coins
             IN  /\ db.children[c] # NoRow =>
                      /\ db'.children[c].coins[t] = db.children[c].coins[t] - n
                      /\ \A u \in Types \ {t} :
                            db'.children[c].coins[u] = db.children[c].coins[u]
                 /\ \A d \in Children \ {c} : db'.children[d] = db.children[d]
                 /\ db'.coin_log = Append(db.coin_log, LogEntry(c, t, -n, "session"))
                 /\ Len(db'.sessions) = Len(db.sessions) + 1
                 /\ SubSeq(db'.sessions, 1, Len(db.sessions)) = db.sessions
                 /\ db'.sessions[Len(db'.sessions)].child_id = c
                 /\ db'.sessions[Len(db'.sessions)].type = t
                 /\ db'.sessions[Len(db'.sessions)].coins_used = n
                 /\ db'.sessions[Len(db'.sessions)].status = "active"]_vars

\* C5 witness: a start_session with 2 coins has committed: the tv balance went
\* from 2 to 0, one log entry and one active session row exist.
C5_Witness ==
    \E p \in ChildProcs :
        /\ pc[p] = "ss_hw"
        /\ loc[p].coins = 2
        /\ db.children[loc[p].child_id] # NoRow
        /\ db.children[loc[p].child_id].coins["tv"] = 0
        /\ Len(db.coin_log) = 1
        /\ db.sessions[loc[p].session_id] # NoRow
        /\ db.sessions[loc[p].session_id].coins_used = 2

\* C6: when start_session's enable call returns false nothing is rolled back:
\* the step leaves the committed store (session row, debit, log entry) as it
\* is, and the response carries status 'active' and hardware_ok = false.
C6_FailedEnableKeepsSession ==
    [][\A p \in ChildProcs :
          (pc[p] = "ss_hw" /\ pc'[p] = "done" /\ resp'[p].code = 200
                           /\ ~resp'[p].hardware_ok) =>
             /\ db' = db
             /\ resp'[p].status = "active"
             /\ resp'[p].id = loc[p].session_id
             /\ resp'[p].coins_used = loc[p].coins]_vars

\* C6 witness: a start_session answered hardware_ok = false while its session
\* row is active, its coins are debited and its log entry is there.
C6_Witness ==
    \E p \in ChildProcs :
        /\ pc[p] = "done"
        /\ resp[p].op = "start_session"
        /\ resp[p].code = 200
        /\ ~resp[p].hardware_ok
        /\ db.sessions[resp[p].id] # NoRow
        /\ db.sessions[resp[p].id].status = "active"
        /\ db.children[resp[p].child_id] # NoRow
        /\ db.children[resp[p].child_id].coins[resp[p].type]
             = InitChild(resp[p].child_id).coins[resp[p].type] - resp[p].coins_used
        /\ Len(db.coin_log) = 1

\* C7: the dispatcher and the console adapter return a boolean and never raise,
\* so no handler ends with an exception from the hardware layer.
C7_NoHardwareException ==
    \A p \in Procs : resp[p].code = 500 => resp[p].error # "TypeError"

\* C9: the refill never loses a debit or a downward adjustment committed
\* between its read of the children rows and its commit: where a child's
\* committed balance is lower than the one the refill read (limits as read),
\* the refill commits the refill of that lower balance.
C9_RefillLosesNothing ==
    [][RefillCommits =>
          \A c \in Children, t \in Types :
              LET read == loc["ref"].children[c]
              IN  (/\ read # NoRow
                   /\ db.children[c] # NoRow
                   /\ db'.children[c] # NoRow
                   /\ db.children[c].max = read.max
                   /\ db.children[c].weekly = read.weekly
                   /\ db.children[c].coins[t] < read.coins[t])
                  => db'.children[c].coins[t] = Refilled(db.children[c], t)]_vars

\* C10: the writes of one operation reach the committed store together or not
\* at all.  The committed rows change only by a commit that installs a whole
\* transaction; a step that adds a session row adds its 'session' log entry and
\* the debit, and the other way round; the commit of admin_adjust_coins
\* installs its balance and its log entry together; the commit of the refill
\* installs each child's new balance together with the log entry of every
\* positive delta.
C10_Atomic ==
    [][/\ <<db'.children, db'.sessions, db'.coin_log>>
             # <<db.children, db.sessions, db.coin_log>>
          => /\ lock \in Procs
             /\ db' = tx
             /\ lock' = "none"
       /\ (Len(db'.sessions) > Len(db.sessions))
            <=> (\E k \in 1..Len(NewLog) : NewLog[k].reason = "session")
       /\ Len(db'.sessions) > Len(db.sessions) =>
            LET s == db'.sessions[Len(db'.sessions)]
            IN  /\ Len(db'.sessions) = Len(db.sessions) + 1
                /\ NewLog = <<LogEntry(s.child_id, s.type, -s.coins_used, "session")>>
                /\ db'.children = Debit(db, s.child_id, s.type, s.coins_used).children
       /\ \A p \in AdminProcs :
            (pc[p] = "ac_commit" /\ pc'[p] = "done") =>
                /\ NewLog = <<LogEntry(loc[p].child_id, loc[p].type,
                                       loc[p].delta, "admin_adjust")>>
                /\ db'.children =
                     SetCoins(db, loc[p].child_id, loc[p].type, loc[p].new_val).children
       /\ (\E k \in 1..Len(NewLog) : NewLog[k].reason = "admin_adjust")
            => \E p \in AdminProcs : pc[p] = "ac_commit" /\ pc'[p] = "done"
       /\ RefillCommits =>
            \A k \in 1..Len(loc["ref"].ids), t \in Types :
                LET c == loc["ref"].ids[k]
                    child == loc["ref"].children[c]
                    e == LogEntry(c, t, Refilled(child, t) - child.coins[t],
                                  "weekly_refill")
                IN  /\ db'.children[c] # NoRow =>
                         db'.children[c].coins[t] = Refilled(child, t)
                    /\ e.delta > 0 <=> (\E j \in 1..Len(NewLog) : NewLog[j] = e)
       /\ (\E k \in 1..Len(NewLog) : NewLog[k].reason = "weekly_refill")
            => RefillCommits]_vars

\* C10 witness: a start_session has written its debit inside its transaction
\* and not yet its log entry; the committed store shows none of its writes.
C10_Witness ==
    \E p \in ChildProcs :
        /\ pc[p] = "ss_log"
        /\ lock = p
        /\ tx.children[loc[p].child_id].coins[loc[p].type]
             = db.children[loc[p].child_id].coins[loc[p].type] - loc[p].coins
        /\ tx.coin_log = db.coin_log
        /\ tx.sessions = db.sessions

\* ------------------------------------------------------------ fairness
\* The scheduler runs the sweep every minute and the event loop resumes every
\* suspended handler; the server is not restarted.
Continue(p) ==
    /\ pc[p] # "idle"
    /\ \/ StartSessionSteps(p)
       \/ EndSessionSteps(p)
       \/ CancelSessionSteps(p)
       \/ AdjustCoinsSteps(p)
       \/ UpdateChildSteps(p)
       \/ DeleteChildSteps(p)
       \/ RefillSteps(p)
       \/ Finish(p)

FairNext ==
    \/ \E p \in ChildProcs : StartSessionSteps(p)
    \/ \E p \in ChildProcs : EndSessionSteps(p)
    \/ \E p \in AdminProcs : CancelSessionSteps(p)
    \/ \E p \in AdminProcs : AdjustCoinsSteps(p)
    \/ \E p \in AdminProcs : UpdateChildSteps(p)
    \/ \E p \in AdminProcs : DeleteChildSteps(p)
    \/ RefillSteps("ref")
    \/ ExpireSteps("exp")
    \/ \E p \in Procs : Finish(p)
    \/ \E p \in Procs : BusyTimeout(p)
    \/ Tick

FairSpec ==
    /\ Init
    /\ [][FairNext]_vars
    /\ WF_vars(ExpireSteps("exp"))
    /\ \A p \in Procs \ {"exp"} : WF_vars(Continue(p))

\* ======================================== the server with simulated devices
\* USE_MOCK_ADAPTERS=true: every enable and disable call goes to mock.py and
\* succeeds, and the tv's state is the mock's _state.  A Saturday, on which the
\* time windows admit both children at the start; the server is not restarted.
MockInit ==
    /\ InitServer(InitStore("mikrotik"), [weekday |-> 5, holiday |-> FALSE])
    /\ InitAdapters([Configured EXCEPT !.USE_MOCK_ADAPTERS = "true"])

MockSpec == MockInit /\ [][FairNext]_vars

OverdueActive(s) ==
    /\ s \in 1..Len(db.sessions)
    /\ db.sessions[s] # NoRow
    /\ db.sessions[s].status = "active"
    /\ db.sessions[s].ends_at <= now

\* C8: under weak fairness of expire_sessions every session that is 'active'
\* with ends_at <= now is eventually no longer 'active', whatever the disable
\* call does.
C8_ExpiredEventuallyCompleted ==
    \A s \in SessionIds : OverdueActive(s) ~> ~OverdueActive(s)

\* The sum of the deltas the log holds for child c and type t.
RECURSIVE SumDeltas(_, _, _)
SumDeltas(log, c, t) ==
    IF log = << >> THEN 0
    ELSE (IF Head(log).child_id = c /\ Head(log).type = t THEN Head(log).delta ELSE 0)
         + SumDeltas(Tail(log), c, t)

\* C11: in every committed state each child's balance of each type equals its
\* initial balance plus the sum of the child's coin_log deltas for that type.
C11_LedgerExplainsBalance ==
    \A c \in Children, t \in Types :
        db.children[c] # NoRow =>
            db.children[c].coins[t]
                = InitChild(c).coins[t] + SumDeltas(db.coin_log, c, t)

\* C12: the coin_log is append-only: across every step the committed log keeps
\* every row it had, unchanged and in place.
C12_AppendOnly ==
    [][/\ Len(db'.coin_log) >= Len(db.coin_log)
       /\ SubSeq(db'.coin_log, 1, Len(db.coin_log)) = db.coin_log]_vars

\* C13: a start_session that is rejected (400, 403, 404, 409) has changed no
\* balance, no session row and no log row, holds no transaction and has made
\* no adapter call: neither its step that rejects nor its step before it
\* touches the store or the devices.
C13_RejectedStartNoEffect ==
    [][\A p \in ChildProcs :
          /\ (pc[p] = "idle" /\ pc'[p] = "ss_existing") =>
                UNCHANGED <<db, tx, lock, hw, calls>>
          /\ (/\ pc[p] \in {"idle", "ss_existing"}
              /\ pc'[p] = "done"
              /\ resp'[p].op = "start_session") =>
                /\ resp'[p].code \in {400, 403, 404, 409}
                /\ UNCHANGED <<db, tx, lock, hw, calls>>]_vars

\* C13 witness: a start_session was rejected for insufficient balance and the
\* store is as it was at the start.
C13_Witness ==
    \E p \in ChildProcs, ct \in ControlTypes :
        /\ pc[p] = "done"
        /\ resp[p].op = "start_session"
        /\ resp[p].code = 400
        /\ "available" \in DOMAIN resp[p]
        /\ db = InitStore(ct)
        /\ calls = [s \in SessionIds |-> [enable |-> 0, disable |-> 0, by |-> {}]]

\* C14: when the committed store holds an active session of the child, a
\* start_session that has passed the validity, window and balance checks is
\* answered 409 and no balance changes.
C14_SecondStartConflicts ==
    [][\A p \in ChildProcs :
          (/\ pc[p] = "ss_existing"
           /\ pc'[p] \in {"done", "ss_update"}
           /\ \E i \in 1..Len(db.sessions) :
                 /\ db.sessions[i] # NoRow
                 /\ db.sessions[i].child_id = loc[p].child_id
                 /\ db.sessions[i].status = "active") =>
              /\ pc'[p] = "done"
              /\ resp'[p].code = 409
              /\ db'.children = db.children
              /\ tx' = tx]_vars

\* C14 witness: a start_session was answered 409 while the child's first
\* session is active and only that session's coins are debited.
C14_Witness ==
    \E p \in ChildProcs, c \in Children :
        /\ pc[p] = "done"
        /\ resp[p].op = "start_session"
        /\ resp[p].code = 409
        /\ Len(db.sessions) = 1
        /\ db.sessions[1] # NoRow
        /\ db.sessions[1].child_id = c
        /\ db.sessions[1].status = "active"
        /\ db.children[c].coins[db.sessions[1].type]
             = InitChild(c).coins[db.sessions[1].type] - db.sessions[1].coins_used

\* C15: a start_session for 'switch' with more than 2 coins is rejected by its
\* first step, whatever the balance, the window and the sessions, and nothing
\* is written; a 'tv' request with at least one coin is answered 400 only for
\* a balance below the coins asked.
C15_SwitchCap ==
    [][\A p \in ChildProcs, sub \in Children, c \in Children :
          /\ \A n \in {k \in CoinsAsked : k > 2} :
                start_session(p, sub, c, "switch", n) =>
                   /\ pc'[p] = "done"
                   /\ resp'[p].code \in {400, 403}
                   /\ sub = c => resp'[p] = BadRequest("start_session", "switch_max")
                   /\ UNCHANGED <<db, tx, lock, hw, calls>>
          /\ \A n \in {k \in CoinsAsked : k >= 1} :
                (start_session(p, sub, c, "tv", n) /\ resp'[p].code = 400) =>
                   /\ "available" \in DOMAIN resp'[p]
                   /\ resp'[p].available < n]_vars

\* C15 witness: a switch request was rejected for the cap while every child's
\* switch balance is 3.
C15_Witness ==
    \E p \in ChildProcs :
        /\ pc[p] = "done"
        /\ resp[p] = BadRequest("start_session", "switch_max")
        /\ \A c \in Children :
              db.children[c] # NoRow /\ db.children[c].coins["switch"] = 2 + 1

NewTxLog ==
    IF tx # NoRow /\ tx' # NoRow /\ Len(tx'.coin_log) > Len(tx.coin_log)
    THEN SubSeq(tx'.coin_log, Len(tx.coin_log) + 1, Len(tx'.coin_log))
    ELSE << >>

\* C17: for every child and type the refill writes
\* min(balance + weekly, max) of the row it read, and adds a 'weekly_refill'
\* log row exactly for the positive deltas: at the cap it adds none and the
\* balance stays at the maximum.
C17_RefillRule ==
    [][/\ (pc["ref"] = "wr_update" /\ pc'["ref"] = "wr_log") =>
            LET c == loc["ref"].ids[loc["ref"].i]
                read == loc["ref"].children[c]
            IN  tx'.children[c] # NoRow =>
                  \A t \in Types :
                     tx'.children[c].coins[t]
                        = IF read.coins[t] + read.weekly[t] <= read.max[t]
                          THEN read.coins[t] + read.weekly[t]
                          ELSE read.max[t]
       /\ (pc["ref"] = "wr_log" /\ pc'["ref"] \in {"wr_update", "wr_commit"}) =>
            LET c == loc["ref"].ids[loc["ref"].i]
                read == loc["ref"].children[c]
                new(t) == IF read.coins[t] + read.weekly[t] <= read.max[t]
                          THEN read.coins[t] + read.weekly[t]
                          ELSE read.max[t]
                positive == {t \in Types : new(t) > read.coins[t]}
            IN  /\ Len(NewTxLog) = Cardinality(positive)
                /\ \A t \in positive : \E k \in 1..Len(NewTxLog) :
                      NewTxLog[k] = LogEntry(c, t, new(t) - read.coins[t], "weekly_refill")
                /\ tx'.children = tx.children]_vars

\* C17 witness: a second refill run, with every balance at its maximum, has
\* written no log row and left the balances at the maximum.
C17_Witness ==
    /\ pc["ref"] = "wr_commit"
    /\ ops = 2
    /\ Len(db.coin_log) = 4
    /\ tx.coin_log = db.coin_log
    /\ tx.children = db.children
    /\ \A c \in Children, t \in Types :
          /\ db.children[c] # NoRow
          /\ db.children[c].coins[t] = db.children[c].max[t]
          /\ loc["ref"].children[c].coins[t] = db.children[c].max[t]

\* C18: when a run of expire_sessions ends, every session it selected is
\* committed 'completed' and every other session row is as it was.
C18_ExpireCompletesSelected ==
    [][(pc["exp"] \in {"ex_hw", "ex_commit"} /\ pc'["exp"] = "idle") =>
          LET selected == {loc["exp"].expired[k].id : k \in 1..Len(loc["exp"].expired)}
          IN  \A i \in Rows(db') :
                 IF i \in selected
                 THEN db'.sessions[i].status = "completed"
                 ELSE i \in Rows(db) /\ db'.sessions[i] = db.sessions[i]]_vars

\* C19: expire_sessions is idempotent: a run never selects a session for which
\* an earlier run already made the disable call.
C19_ExpireIdempotent ==
    [][(pc["exp"] = "idle" /\ pc'["exp"] = "ex_update") =>
          \A k \in 1..Len(loc'["exp"].expired) :
             "expire_sessions" \notin calls[loc'["exp"].expired[k].id].by]_vars

\* C20: end_session on a session that is not 'active' or does not exist is
\* answered 404, changes nothing and calls no adapter; on an active session
\* its commit sets the status 'completed', then the disable call is made, and
\* that step leaves the committed store as it is whatever the call returns.
C20_EndSession ==
    [][\A p \in ChildProcs :
          /\ \A sub \in Children, s \in SessionIds :
                (/\ end_session(p, sub, s)
                 /\ ~(/\ s \in Rows(db)
                      /\ db.sessions[s].status = "active")) =>
                   /\ resp'[p].code = 404
                   /\ UNCHANGED <<db, tx, lock, hw, calls>>
          /\ (pc[p] = "es_commit" /\ pc'[p] = "es_hw") =>
                (loc[p].session_id \in Rows(db') =>
                    db'.sessions[loc[p].session_id].status = "completed")
          /\ (pc[p] = "es_hw" /\ pc'[p] = "done") =>
                /\ db' = db
                /\ "end_session" \in calls'[loc[p].session_id].by]_vars

\* C20 witness: end_session was answered 200, the session is 'completed' and
\* the device is still unlocked: the disable call returned false.
C20_Witness ==
    \E p \in ChildProcs, s \in Rows(db) :
        /\ pc[p] = "done"
        /\ resp[p].op = "end_session"
        /\ resp[p].code = 200
        /\ db.sessions[s].status = "completed"
        /\ calls[s].by = {"end_session"}
        /\ hw[db.sessions[s].type]

\* C21: admin_cancel_session on a session that is not 'active' or does not
\* exist is answered 404 and changes nothing; on an active session its UPDATE
\* and commit set the status 'cancelled', then the disable call of the
\* session's category is made (the other category's device is left alone),
\* and no step of the handler changes a balance or the coin log.
C21_CancelSession ==
    [][\A p \in AdminProcs :
          /\ \A s \in SessionIds :
                (/\ admin_cancel_session(p, s)
                 /\ ~(/\ s \in Rows(db)
                      /\ db.sessions[s].status = "active")) =>
                   /\ resp'[p].code = 404
                   /\ UNCHANGED <<db, tx, lock, hw, calls>>
          /\ (pc[p] = "cs_update" /\ pc'[p] = "cs_commit") =>
                /\ tx'.children = db.children
                /\ tx'.coin_log = db.coin_log
                /\ db' = db
          /\ (pc[p] = "cs_commit" /\ pc'[p] = "cs_hw") =>
                /\ loc[p].session_id \in Rows(db') =>
                      db'.sessions[loc[p].session_id].status = "cancelled"
                /\ db'.children = db.children
                /\ db'.coin_log = db.coin_log
          /\ (pc[p] = "cs_hw" /\ pc'[p] = "done") =>
                /\ db' = db
                /\ "admin_cancel_session" \in calls'[loc[p].session_id].by
                /\ \A t \in Types :
                      hw'[t] # hw[t] => (t = loc[p].type /\ ~hw'[t])]_vars

\* C21 witness: the forced stop was answered 200, the session is 'cancelled',
\* the disable call was made and locked the device, and the child's balance
\* is still the one the start left.
C21_Witness ==
    \E p \in AdminProcs, s \in Rows(db) :
        /\ pc[p] = "done"
        /\ resp[p].op = "admin_cancel_session"
        /\ resp[p].code = 200
        /\ db.sessions[s].status = "cancelled"
        /\ calls[s].by = {"admin_cancel_session"}
        /\ ~hw[db.sessions[s].type]
        /\ db.children[db.sessions[s].child_id] # NoRow
        /\ db.children[db.sessions[s].child_id].coins[db.sessions[s].type]
              = InitChild(db.sessions[s].child_id).coins[db.sessions[s].type]
                  - db.sessions[s].coins_used

\* Control types the dispatcher has no adapter for: the two the admin routes
\* accept besides the adapters' own, and values they would reject.
NoAdapterTypes == {"schedule_only", "none", "", "Fritzbox"}

\* C26: for 'schedule_only', 'none' and unrecognized control types the
\* dispatcher's tv_freigeben and tv_sperren have the one outcome false, taken
\* from no adapter; a tv start_session with such a device commits its debit,
\* its log entry and its active session row as with any device, and its
\* enable step changes no device, leaves the store alone and answers 200
\* with hardware_ok = false.
C26_NoAdapter ==
    [][/\ \A ct \in NoAdapterTypes :
             tv_freigeben(ct) = {"false"} /\ tv_sperren(ct) = {"false"}
       /\ \A p \in ChildProcs :
             LET c == loc[p].child_id
                 n == loc[p].coins
             IN  /\ (/\ pc[p] = "ss_commit"
                     /\ pc'[p] = "ss_hw"
                     /\ loc[p].type = "tv"
                     /\ db.tv_device.control_type \in NoAdapterTypes) =>
                       /\ db.children[c] # NoRow =>
                             db'.children[c].coins["tv"]
                                = db.children[c].coins["tv"] - n
                       /\ db'.coin_log
                             = Append(db.coin_log, LogEntry(c, "tv", -n, "session"))
                       /\ Len(db'.sessions) = Len(db.sessions) + 1
                       /\ db'.sessions[Len(db'.sessions)].status = "active"
                       /\ db'.sessions[Len(db'.sessions)].coins_used = n
                 /\ (/\ pc[p] = "ss_hw"
                     /\ pc'[p] = "done"
                     /\ loc[p].type = "tv"
                     /\ db.tv_device.control_type \in NoAdapterTypes) =>
                       /\ resp'[p].code = 200
                       /\ resp'[p].hardware_ok = FALSE
                       /\ hw' = hw
                       /\ db' = db]_vars

\* C26 witness: with a schedule_only tv a start_session for one coin was
\* answered 200 with hardware_ok = false; the session is active, the coin is
\* debited and the tv is still locked.
C26_Witness ==
    \E p \in ChildProcs, s \in Rows(db) :
        /\ db.tv_device.control_type = "schedule_only"
        /\ pc[p] = "done"
        /\ resp[p].op = "start_session"
        /\ resp[p].code = 200
        /\ resp[p].id = s
        /\ resp[p].type = "tv"
        /\ resp[p].hardware_ok = FALSE
        /\ db.sessions[s].status = "active"
        /\ db.children[resp[p].child_id] # NoRow
        /\ db.children[resp[p].child_id].coins["tv"]
              = InitChild(resp[p].child_id).coins["tv"] - 1
        /\ ~hw["tv"]


\* ------------------------------------------------- claims on the adapters
\* The router adapter's two profile-changing functions.
ChangeProfile(r) ==
    r.adapter = "fritzbox" /\ r.fn \in {"tv_freigeben", "tv_sperren"}

DataPcs == {"device_uid", "profile_id", "set_profile"}

\* C22: in a profile change, a request of the first attempt answered 403
\* clears the SID cache and starts the second attempt with a login that goes
\* to the router whatever the cache holds; any other failed request of the
\* first attempt returns false at once and leaves the cache alone; any failed
\* request of the second attempt, the login's included, returns false; no
\* call has a third attempt or a third login.
C22_RetryOnce ==
    [][\A c \in Callers :
          LET r == call[c]
              r2 == call'[c]
          IN  (ChangeProfile(r) /\ r2.requests = r.requests + 1) =>
                /\ r2.attempt <= 1
                /\ r2.logins <= 2
                /\ (r.pc \in DataPcs /\ r.attempt = 0 /\ r2.last = "403") =>
                      /\ _sid_cache' = EmptyCache
                      /\ r2.attempt = 1
                      /\ r2.logins = r.logins + 1
                      /\ r2.pc = "login_get"
                /\ (r.pc \in DataPcs /\ r.attempt = 0
                      /\ r2.last \notin {"ok", "403"}) =>
                      /\ r2.pc = "return"
                      /\ r2.result = "false"
                      /\ r2.attempt = 0
                      /\ r2.logins = r.logins
                      /\ UNCHANGED _sid_cache
                /\ (r.attempt = 1 /\ r2.last # "ok") =>
                      /\ r2.pc = "return"
                      /\ r2.result = "false"
                      /\ r2.logins = r.logins
                /\ r2.attempt = 1 => r2.logins >= 1]_vars

\* C22 witness: a profile change that logged in, was answered 403, logged in
\* again, was answered 403 again and returned false.
C22_Witness ==
    \E c \in Callers :
        /\ ChangeProfile(call[c])
        /\ call[c].pc = "return"
        /\ call[c].attempt = 1
        /\ call[c].logins = 2
        /\ call[c].last = "403"
        /\ call[c].result = "false"

\* The claim's own notion of a valid cache.
CacheValid(cache, t) ==
    /\ cache.sid # ""
    /\ cache.sid # SENTINEL
    /\ t < cache.expires_at

\* C23: _sid_is_valid holds exactly while a SID is stored, differs from the
\* sentinel and the clock is before expires_at; the sentinel is never stored;
\* the step that invalidates leaves an invalid cache, and an invalid cache
\* becomes valid only in a login step that got a SID; a call that starts
\* takes the cached SID without a login if the cache is valid and logs in
\* otherwise.
C23_SidCache ==
    [][/\ _sid_cache'.sid # SENTINEL
       /\ _sid_is_valid(_sid_cache', monotonic')
             <=> CacheValid(_sid_cache', monotonic')
       /\ (~CacheValid(_sid_cache, monotonic)
             /\ CacheValid(_sid_cache', monotonic')) =>
             \E c \in Callers :
                 /\ call[c].pc \in {"login_get", "login_post"}
                 /\ call'[c].last = "ok"
                 /\ call'[c].sid = _sid_cache'.sid
       /\ \A c \in Callers :
             LET r == call[c]
                 r2 == call'[c]
             IN  /\ (ChangeProfile(r) /\ r2.attempt = r.attempt + 1) =>
                       ~CacheValid(_sid_cache', monotonic')
                 /\ (/\ r.fn = "idle"
                     /\ r2.adapter = "fritzbox"
                     /\ env.USE_MOCK_ADAPTERS = "false"
                     /\ env.FRITZBOX_HOST # "") =>
                       IF CacheValid(_sid_cache, monotonic)
                       THEN /\ r2.sid = _sid_cache.sid
                            /\ r2.logins = 0
                            /\ r2.pc = "device_uid"
                       ELSE /\ r2.sid = ""
                            /\ r2.logins = 1
                            /\ r2.pc \in {"login_get", "return"}]_vars

\* C23 witness: the cache was invalidated after a 403 and is valid again: the
\* second attempt's login got a SID.
C23_Witness ==
    \E c \in Callers :
        /\ ChangeProfile(call[c])
        /\ call[c].attempt = 1
        /\ call[c].pc = "device_uid"
        /\ CacheValid(_sid_cache, monotonic)
        /\ call[c].sid = _sid_cache.sid

Missing(adapter) ==
    CASE adapter = "fritzbox" -> env.FRITZBOX_PASS = ""
      [] adapter = "mikrotik_direct" ->
            \/ env.MIKROTIK_HOST = ""
            \/ env.MIKROTIK_USER = "" /\ env.MIKROTIK_USERNAME = ""
            \/ env.MIKROTIK_PASS = ""
      [] adapter = "nintendo" -> env.NINTENDO_TOKEN = ""
      [] OTHER -> FALSE

MockOn == env.USE_MOCK_ADAPTERS \in {"true", "True"}

\* C25 as stated: with the adapter's host or credentials missing, a call of
\* enable, disable or status returns false without a network request.
C25_MissingConfig_stated ==
    [][\A c \in Callers :
          (/\ call[c].fn = "idle"
           /\ call'[c].fn # "idle"
           /\ Missing(call'[c].adapter)) =>
             /\ call'[c].pc = "return"
             /\ call'[c].result = "false"
             /\ call'[c].requests = 0]_vars

\* C25: with the adapter's host or credentials missing and the mock switched
\* off, a call of enable, disable or status returns false in its first step,
\* without a network request and without a change of any device.
C25_MissingConfig ==
    [][\A c \in Callers :
          (/\ call[c].fn = "idle"
           /\ call'[c].fn # "idle"
           /\ Missing(call'[c].adapter)
           /\ ~MockOn) =>
             /\ call'[c].pc = "return"
             /\ call'[c].result = "false"
             /\ call'[c].requests = 0
             /\ box' = box]_vars

\* C25 witness: the REST adapter, with a host and a user but no password,
\* returned false without a request.
C25_Witness ==
    \E c \in Callers :
        /\ call[c].adapter = "mikrotik_direct"
        /\ env.MIKROTIK_HOST # ""
        /\ env.MIKROTIK_USER # ""
        /\ env.MIKROTIK_PASS = ""
        /\ ~MockOn
        /\ call[c].pc = "return"
        /\ call[c].result = "false"
        /\ call[c].requests = 0

\* The REST adapter's view of the tv: the entry's flag, or the mock's.
Flag(b) == IF MockOn THEN b.tv_unlocked ELSE b.disabled = "true"

\* C27 as stated: tv_status returns true exactly if the flag is true.
C27_DisabledFlag_stated ==
    [][\A c \in Callers :
          (/\ call[c].adapter = "mikrotik_direct"
           /\ call[c].fn = "tv_status" \/ call'[c].fn = "tv_status"
           /\ call[c].pc # "return"
           /\ call'[c].pc = "return") =>
             (call'[c].result = "true" <=> Flag(box))]_vars

\* C27: in the REST adapter a tv_freigeben that returns true has set the flag
\* to true and a tv_sperren that returns true has set it to false, nothing
\* else changes the flag, and a call that finds the flag already as it sets
\* it leaves it so; a tv_status whose request is answered returns true
\* exactly if the flag is true, and a tv_status that returns true has seen
\* the flag true.
C27_DisabledFlag ==
    [][\A c \in Callers :
          LET r2 == call'[c]
          IN  (/\ r2.adapter = "mikrotik_direct"
               /\ call[c].pc # "return"
               /\ r2.pc = "return") =>
                /\ (r2.fn = "tv_freigeben" /\ r2.result = "true") => Flag(box')
                /\ (r2.fn = "tv_sperren" /\ r2.result = "true") => ~Flag(box')
                /\ Flag(box') # Flag(box) =>
                      r2.fn \in {"tv_freigeben", "tv_sperren"} /\ r2.result = "true"
                /\ (r2.fn = "tv_status" /\ (MockOn \/ r2.last = "ok")) =>
                      (r2.result = "true" <=> Flag(box))
                /\ (r2.fn = "tv_status" /\ r2.result = "true") => Flag(box)]_vars

\* C27 witness: after an enable, tv_status read the flag and returned true.
C27_Witness ==
    \E c \in Callers :
        /\ call[c].adapter = "mikrotik_direct"
        /\ call[c].fn = "tv_status"
        /\ call[c].pc = "return"
        /\ call[c].last = "ok"
        /\ call[c].result = "true"
        /\ box.disabled = "true"
        /\ ncalls = 2

\* The most requests one call of an adapter makes: two attempts of a login
\* (two requests) and three POSTs; two base URLs with two GETs each and two
\* more requests; the vendor's login and its call.
RequestBound(adapter) ==
    CASE adapter = "fritzbox" -> 2 * (2 + 3)
      [] adapter = "mikrotik_direct" -> 2 * 2 + 2
      [] OTHER -> 2

MinuteOf(text) ==
    CHOOSE v \in {8 * 60, 9 * 60, 9 * 60 + 59, 10 * 60, 10 * 60 + 1,
                  10 * 60 + 30, 11 * 60, 12 * 60, 20 * 60} :
        HM(v \div 60, v % 60) = text

\* Some period of the list holds minute t, both ends included.
Within(list, t) ==
    \E i \in 1..Len(list) :
        MinuteOf(list[i].von) <= t /\ t <= MinuteOf(list[i].bis)

\* A start_session request that passes the checks made before the time window.
Plausible(p, sub, c, t, n) ==
    /\ sub = c
    /\ t \in Types
    /\ n >= 1
    /\ ~(t = "switch" /\ n > SWITCH_MAX_COINS)
    /\ View(p).children[c] # NoRow

\* C28: is_in_periods holds for a list and a minute exactly if some period of
\* the list has von <= minute <= bis in minutes since midnight, and a
\* start_session that comes to the time window is answered 403 exactly if
\* that is not so for the active list: admitted at exactly von and at exactly
\* bis, rejected one minute before von, one minute after bis, and by a period
\* with von > bis.
C28_Inclusive ==
    [][\A p \in ChildProcs, sub \in Children, c \in Children,
          t \in Types, n \in CoinsAsked :
          (start_session(p, sub, c, t, n) /\ Plausible(p, sub, c, t, n)) =>
             LET child == View(p).children[c]
                 active == get_active_periods(child.allowed_periods,
                                              child.weekend_periods, weekend)
                 minute == now % DayMinutes
             IN  /\ is_in_periods(active, minute) <=> Within(active, minute)
                 /\ resp'[p].code = 403 <=> ~Within(active, minute)
                 /\ \A i \in 1..Len(active) :
                       /\ minute \in {MinuteOf(active[i].von),
                                      MinuteOf(active[i].bis)}
                          /\ MinuteOf(active[i].von) <= MinuteOf(active[i].bis)
                          => resp'[p].code # 403
                       /\ (Len(active) = 1
                             /\ minute \in {MinuteOf(active[i].von) - 1,
                                            MinuteOf(active[i].bis) + 1})
                          => resp'[p].code = 403
                       /\ (Len(active) = 1
                             /\ MinuteOf(active[i].von) > MinuteOf(active[i].bis))
                          => resp'[p].code = 403]_vars

\* C28 witness: at 10:00 a start_session for a child whose only period is
\* 08:00-10:00 has passed the time window.
C28_Witness ==
    \E p \in ChildProcs :
        /\ pc[p] = "ss_existing"
        /\ now = 10 * 60
        /\ ~weekend
        /\ db.children[loc[p].child_id].allowed_periods
              = << [von |-> HM(8, 0), bis |-> HM(10, 0)] >>

\* The list the claim selects for a child on a day.
Selected(child, day) ==
    LET list == IF day.weekday \in {5, 6} \/ day.holiday
                THEN child.weekend_periods
                ELSE child.allowed_periods
    IN  IF list = << >> THEN << [von |-> HM(8, 0), bis |-> HM(20, 0)] >>
        ELSE list

\* C29: get_active_periods gives the weekend list on a Saturday, a Sunday and
\* a public holiday and the weekday list on any other day, and the one
\* period 08:00-20:00 in place of an empty list; a start_session that comes
\* to the time window is answered 403, naming that list, exactly if no
\* period of that list holds the current minute.
C29_ActivePeriods ==
    [][\A p \in ChildProcs, sub \in Children, c \in Children,
          t \in Types, n \in CoinsAsked :
          (start_session(p, sub, c, t, n) /\ Plausible(p, sub, c, t, n)) =>
             LET child == View(p).children[c]
                 selected == Selected(child, today)
             IN  /\ get_active_periods(child.allowed_periods,
                                       child.weekend_periods,
                                       is_weekend_or_holiday(today)) = selected
                 /\ resp'[p].code = 403 <=> ~Within(selected, now % DayMinutes)
                 /\ resp'[p].code = 403 => resp'[p].periods = selected]_vars

\* C29 witness: on a Saturday a start_session of the first child, whose
\* weekend list is empty and whose weekday list does not hold the minute,
\* has passed the time window by the default period.
C29_Witness ==
    \E p \in ChildProcs :
        /\ pc[p] = "ss_existing"
        /\ loc[p].child_id = 1
        /\ today.weekday = 5
        /\ db.children[1] # NoRow
        /\ db.children[1].weekend_periods = << >>
        /\ db.children[1].allowed_periods
              = << [von |-> HM(12, 0), bis |-> HM(8, 0)] >>

\* ------------------------------------------- claims on the order of effects
\* C31: an adapter call for a session is made only once the transition it
\* belongs to is committed: at an enable call the session's row has been
\* committed and no enable was made for it before, at a disable call
\* the committed row is no longer 'active'.
C31_CommitBeforeCall ==
    [][\A s \in SessionIds :
          /\ calls'[s].enable # calls[s].enable =>
                /\ s \in 1..Len(db.sessions)
                /\ calls[s].enable = 0
          /\ (calls'[s].disable # calls[s].disable /\ s \in Rows(db)) =>
                db.sessions[s].status # "active"]_vars

\* The host names its transport itself.
HasScheme == strip(env.MIKROTIK_HOST) = "http://router"

\* C32: in the REST adapter the next base URL is taken only after a transport
\* error, and then from https to http; an HTTP error status returns false at
\* once; an entry matched by neither GET returns false at once, the second
\* GET going to the same base URL as the first; with a host that names its
\* scheme a transport error returns false at once.
C32_Fallback ==
    [][\A c \in Callers :
          LET r == call[c]
              r2 == call'[c]
          IN  (r.adapter = "mikrotik_direct" /\ r2.requests = r.requests + 1) =>
                /\ (r2.pc # "return" /\ Len(r2.urls) < Len(r.urls)) =>
                      /\ r2.last = "transport"
                      /\ ~HasScheme
                      /\ Head(r.urls)[1] = "https"
                      /\ Head(r2.urls)[1] = "http"
                /\ (r2.last = "transport" /\ ~HasScheme /\ Len(r.urls) = 2) =>
                      /\ r2.pc # "return"
                      /\ r2.urls = Tail(r.urls)
                /\ r2.last = "error" =>
                      r2.pc = "return" /\ r2.result = "false"
                /\ (r.pc = "entry_filtered" /\ r2.last = "missing") =>
                      r2.pc = "entry_all" /\ r2.urls = r.urls
                /\ (r.pc = "entry_all" /\ r2.last = "missing") =>
                      r2.pc = "return" /\ r2.result = "false"
                /\ (HasScheme /\ r2.last = "transport") =>
                      r2.pc = "return" /\ r2.result = "false"]_vars

\* C32 witness: the list was read over http after https was unreachable, and
\* the PATCH over https then failed with an HTTP error status.
C32_Witness ==
    \E c \in Callers :
        /\ call[c].adapter = "mikrotik_direct"
        /\ ~HasScheme
        /\ call[c].requests = 3
        /\ call[c].pc = "return"
        /\ call[c].last = "error"
        /\ Len(call[c].urls) = 2
        /\ _entry_id_cache[call[c].identifier] # ""

ListPcs == {"entry_filtered", "entry_all"}

\* C35: in the REST adapter an entry id enters the cache only in a list
\* request that matched, under the identifier of the call that made it; a
\* list request that fails or matches nothing stores nothing; a call whose
\* identifier has an id cached makes no list request, a call whose identifier
\* has none starts with one; and an id once cached stays as it is, whatever
\* the router answers to a later request that names it.
C35_EntryCache ==
    [][/\ \A i \in Identifiers :
             /\ _entry_id_cache[i] # "" =>
                   _entry_id_cache'[i] = _entry_id_cache[i]
             /\ _entry_id_cache'[i] # _entry_id_cache[i] =>
                   \E c \in Callers :
                       /\ call[c].pc \in ListPcs
                       /\ call[c].identifier = i
                       /\ call'[c].requests = call[c].requests + 1
                       /\ call'[c].last = "ok"
       /\ \A c \in Callers :
             LET r == call[c]
                 r2 == call'[c]
             IN  /\ (r.pc \in ListPcs /\ r2.requests = r.requests + 1) =>
                       IF r2.last = "ok"
                       THEN /\ _entry_id_cache'[r.identifier] # ""
                            /\ r2.pc = "request"
                       ELSE _entry_id_cache' = _entry_id_cache
                 /\ (r.adapter = "mikrotik_direct" /\ r.pc = "request") =>
                       r2.pc \notin ListPcs
                 /\ (/\ r.fn = "idle"
                     /\ r2.adapter = "mikrotik_direct"
                     /\ r2.pc # "return") =>
                       r2.pc = IF _entry_id_cache[r2.identifier] # ""
                               THEN "request" ELSE "entry_filtered"]_vars

\* C35 witness: a second call for the identifier whose id is cached made one
\* request, which the router rejected, and returned false; the id is still
\* cached, and nothing is cached for the other identifier.
C35_Witness ==
    \E c \in Callers :
        /\ call[c].adapter = "mikrotik_direct"
        /\ call[c].identifier = "Fernseher"
        /\ ncalls = 2
        /\ call[c].requests = 1
        /\ call[c].last = "error"
        /\ call[c].pc = "return"
        /\ call[c].result = "false"
        /\ _entry_id_cache["Fernseher"] = "*1"
        /\ _entry_id_cache["fernseher "] = ""

\* ------------------------------------------------ claims on start_session
\* The answer the claim's order of checks gives a request, "next" where every
\* check before the one for an active session passes.
FirstFailing(store, day, minute, sub, c, t, n) ==
    IF sub # c THEN [op |-> "start_session", code |-> 403]
    ELSE IF t \notin {"switch", "tv"} THEN
        [op |-> "start_session", code |-> 400, detail |-> "type"]
    ELSE IF n < 1 THEN
        [op |-> "start_session", code |-> 400, detail |-> "coins"]
    ELSE IF t = "switch" /\ n > 2 THEN
        [op |-> "start_session", code |-> 400, detail |-> "switch_max"]
    ELSE IF store.children[c] = NoRow THEN
        [op |-> "start_session", code |-> 404]
    ELSE IF ~Within(Selected(store.children[c], day), minute) THEN
        [op |-> "start_session", code |-> 403,
         periods |-> Selected(store.children[c], day)]
    ELSE IF store.children[c].coins[t] < n THEN
        [op |-> "start_session", code |-> 400,
         available |-> store.children[c].coins[t]]
    ELSE [op |-> "start_session", code |-> 0]

\* C33: start_session answers with the first failing check in the order
\* caller, type, coins >= 1, switch cap, child exists, time window, balance,
\* active session: a request is answered by its first step exactly as that
\* order says (the window error with the periods, the balance error with the
\* available amount, whether or not a session is active), and only a request
\* that passes all of these comes to the check for an active session, which
\* answers 409.
C33_CheckOrder ==
    [][\A p \in ChildProcs :
          /\ \A sub \in Children, c \in Children, t \in Types \cup {"x"},
                n \in CoinsAsked :
                start_session(p, sub, c, t, n) =>
                   LET first == FirstFailing(View(p), today, now % DayMinutes,
                                             sub, c, t, n)
                   IN  IF first.code = 0
                       THEN /\ pc'[p] = "ss_existing"
                            /\ loc'[p].child_id = c
                            /\ loc'[p].type = t
                            /\ loc'[p].coins = n
                       ELSE /\ pc'[p] = "done"
                            /\ resp'[p] = first
          /\ (pc[p] = "ss_existing" /\ pc'[p] \in {"done", "ss_update"}) =>
                IF ActiveOf(View(p), loc[p].child_id) # {}
                THEN resp'[p] = [op |-> "start_session", code |-> 409]
                ELSE pc'[p] = "ss_update"]_vars

\* C33 witness: a request of the first child was answered with the window
\* error while the child has an active session and no tv coin left.
C33_Witness ==
    \E p \in ChildProcs :
        /\ pc[p] = "done"
        /\ resp[p].code = 403
        /\ "periods" \in DOMAIN resp[p]
        /\ ActiveOf(db, 1) # {}
        /\ db.children[1].coins["tv"] = 0

\* ------------------------------------- claims on two router calls at once
\* C34: with two profile changes in flight the SID cache holds either no SID
\* or a SID of the router, not the sentinel, with the expiry of the login
\* that stored it; it changes only by an invalidation, which empties it, or by
\* a login's answer, which stores SID and expiry in one step; and each call
\* makes at most two attempts and two logins and returns true or false.
C34_ConcurrentLogins ==
    /\ [](\/ _sid_cache.sid = ""
          \/ /\ _sid_cache.sid \in Sids
             /\ _sid_cache.expires_at \in
                    {m + _SID_TTL : m \in 0..monotonic})
    /\ [](\A c \in Concurrent : call[c].attempt <= 1 /\ call[c].logins <= 2)
    /\ [][_sid_cache' # _sid_cache =>
            \/ /\ _sid_cache' = EmptyCache
               /\ \E c \in Concurrent :
                     call'[c].attempt = 1 /\ call[c].attempt = 0
            \/ \E c \in Concurrent :
                  /\ call[c].pc \in {"login_get", "login_post"}
                  /\ call'[c].requests = call[c].requests + 1
                  /\ _sid_cache'.expires_at = monotonic + _SID_TTL
                  /\ _sid_cache'.sid # "" =>
                        /\ call'[c].last = "ok"
                        /\ call'[c].sid = _sid_cache'.sid]_vars
    /\ \A c \in Concurrent :
          (call[c].fn # "idle") ~>
              (call[c].pc = "return" /\ call[c].result \in {"true", "false"})

\* C34 witness: one call has invalidated the cache after a 403 and waits for
\* its second login, while the cache already holds the SID the other call's
\* login stored in between.
C34_Witness ==
    /\ call["web"].attempt = 1
    /\ call["web"].pc = "login_get"
    /\ call["job"].attempt = 0
    /\ call["job"].logins = 1
    /\ call["job"].pc = "device_uid"
    /\ call["job"].sid \in Sids
    /\ _sid_cache = [sid |-> call["job"].sid, expires_at |-> _SID_TTL]

\* ------------------------------------------------ claims on the shared tv
\* No handler, sweep or refill is in flight.
Quiet == \A p \in Procs : pc[p] \in {"idle", "done"}

ActiveTv(store) ==
    {i \in Rows(store) :
        store.sessions[i].type = "tv" /\ store.sessions[i].status = "active"}

\* C36: with every hardware call succeeding, whenever no operation is in
\* flight the television is unlocked only if some tv session is 'active'.
C36_UnlockedOnlyIfActive ==
    (Quiet /\ hw["tv"]) => ActiveTv(db) # {}

\* C37: with every hardware call succeeding, the television is unlocked
\* whenever some child has an 'active' tv session that was enabled and whose
\* ends_at lies in the future.  Only a child with a single session row is
\* looked at, so that a second session of the same child plays no part.
C37_NotLockedUnderRunning ==
    \A i \in ActiveTv(db) :
        (/\ calls[i].enable > 0
         /\ db.sessions[i].ends_at > now
         /\ \A j \in Rows(db) \ {i} :
               db.sessions[j].child_id # db.sessions[i].child_id)
            => hw["tv"]

\* ------------------------------------------------- claims on child tokens
\* C38: start_session with a child_id other than the token's subject, and
\* end_session on an active session of another child, answer 403 at once:
\* the handler ends there, no balance, session or ledger row changes and no
\* adapter call is made.
C38_OwnChildOnly ==
    [][\A p \in ChildProcs, sub \in Children :
          /\ \A c \in Children \ {sub}, t \in Types \cup {"x"}, n \in CoinsAsked :
                start_session(p, sub, c, t, n) =>
                   /\ pc'[p] = "done"
                   /\ resp'[p] = HttpError("start_session", 403)
                   /\ UNCHANGED <<db, tx, lock, hw, calls>>
          /\ \A s \in SessionIds :
                (/\ end_session(p, sub, s)
                 /\ ActiveSession(View(p), s) # NoRow
                 /\ ActiveSession(View(p), s).child_id # sub) =>
                   /\ pc'[p] = "done"
                   /\ resp'[p] = HttpError("end_session", 403)
                   /\ UNCHANGED <<db, tx, lock, hw, calls>>]_vars

\* Another child's end_session was answered 403 and the session is still
\* active, its device never disabled.
C38_Witness ==
    \E p \in ChildProcs, s \in Rows(db) :
        /\ pc[p] = "done"
        /\ resp[p] = HttpError("end_session", 403)
        /\ db.sessions[s].status = "active"
        /\ calls[s].enable = 1
        /\ calls[s].disable = 0

\* ------------------------------------------------- claims on the refill
\* C39: weekly_coin_refill never decreases a balance: the balance its UPDATE
\* writes for a child whose row has not changed since the job read it is at
\* least the balance that row holds, for both categories.
C39_RefillNeverLowers ==
    [][(pc["ref"] = "wr_update" /\ pc'["ref"] = "wr_log") =>
          LET c == loc["ref"].ids[loc["ref"].i]
          IN  (db.children[c] = loc["ref"].children[c]) =>
                 \A t \in Types :
                     tx'.children[c].coins[t] >= db.children[c].coins[t]]_vars

\* ------------------------------------------- claims on the exclusivity check
\* The committed session rows of child c.
SessionsOf(c) == {i \in Rows(db) : db.sessions[i].child_id = c}

\* C40: the exclusivity check of start_session looks at status only.  While a
\* committed row of the child is 'active', its ends_at passed or not, the check
\* answers 409 and changes nothing; the check lets a start through only when
\* every committed row of the child holds a terminal status.
C40_StatusOnly ==
    [][\A p \in ChildProcs :
          ss_existing(p) =>
             /\ (\E i \in SessionsOf(loc[p].child_id) :
                     db.sessions[i].status = "active") =>
                    /\ pc'[p] = "done"
                    /\ resp'[p] = HttpError("start_session", 409)
                    /\ UNCHANGED <<db, tx, lock, hw, calls>>
             /\ pc'[p] = "ss_update" =>
                    \A i \in SessionsOf(loc[p].child_id) :
                        db.sessions[i].status \in {"completed", "cancelled"}]_vars

\* A start of a child reaches its exclusivity check while the child's session
\* is still 'active' with its ends_at passed and the sweep has not run.
C40_Witness ==
    \E p \in ChildProcs, s \in SessionIds :
        /\ pc[p] = "ss_existing"
        /\ OverdueActive(s)
        /\ db.sessions[s].child_id = loc[p].child_id
        /\ calls[s].enable = 1
        /\ pc["exp"] = "idle"
        /\ lock = "none"

====
